---- MODULE Spec2Model ----
(***************************************************************************)
(* Verification model of the attendance system: the week utilities         *)
(* (utils/weekUtils), the timetable entry modal, the admin and faculty     *)
(* timetable editors and the student absence-request form.                 *)
(*                                                                         *)
(* Texts are sequences of one-character strings, so that split, trim,      *)
(* parseInt and the time regular expression are modelled by what they do.  *)
(***************************************************************************)
EXTENDS Integers, Sequences, FiniteSets, Bags, TLC

VARIABLES
    in1, in2,        \* how the two time texts under test were built
    time1, time2,    \* the two time texts handed to the utilities
    op,              \* the utility or handler applied last ("none" before any)
    out,             \* what it returned
    timetables,      \* the store's timetables collection, a bag of documents
    role,            \* whose timetable editor is open: "admin" or "faculty"
    selectedCourse,  \* TimetableManager.selectedCourse
    selectedSemester,\* TimetableManager.selectedSemester
    timetable,       \* the editor's in-memory weekly timetable
    selectedDay,     \* the day the entry modal is open for, or NoDay
    modalError,      \* TimetableEntryModal.error
    now,             \* the wall clock, as [date, minutes, valid]
    attendanceRequests, \* the store's attendanceRequests collection, by id
    teacherStatus,   \* the status field of the faculty member's users document
    showRequestForm, \* StudentDashboard.showRequestForm
    weekDates,       \* StudentRequestForm.weekDates
    loading,         \* StudentRequestForm.loading
    loadRequestsPending, \* the form's loadRequests has not resolved yet
    requests,        \* StudentRequestForm.requests
    selectedSlots,   \* StudentRequestForm.selectedSlots, the keys set to true
    error,           \* StudentRequestForm.error
    filter,          \* FacultyDashboard.filter
    coursesCollection, \* the store's courses collection, by id
    courses,         \* AdminDashboard.courses
    calls,           \* TimetableManager's calls to the store still running
    nextDocId,       \* the id the store gives to the next added document
    pendingLoads,    \* the selections of the loadTimetable calls still running
    managerLoading,  \* TimetableManager.loading
    processing,      \* FacultyDashboard.processing
    statusCalls,     \* the processRequest and undoAction calls still running
    statusActions    \* how many of these calls have been started

timeVars == <<in1, in2, time1, time2, op, out>>

editorVars == <<role, selectedCourse, selectedSemester, timetable, selectedDay, modalError>>

ttVars == <<timetables, role, selectedCourse, selectedSemester, timetable,
            selectedDay, modalError>>

formVars == <<showRequestForm, weekDates, loading, loadRequestsPending, requests,
              selectedSlots, error>>

reqVars == <<now, attendanceRequests, teacherStatus, showRequestForm, weekDates,
             loading, loadRequestsPending, requests, selectedSlots, error, filter>>

vars == <<in1, in2, time1, time2, op, out, timetables, role, selectedCourse,
          selectedSemester, timetable, selectedDay, modalError, now,
          attendanceRequests, teacherStatus, showRequestForm, weekDates, loading,
          loadRequestsPending, requests, selectedSlots, error, filter,
          coursesCollection, courses, calls, nextDocId, pendingLoads,
          managerLoading, processing, statusCalls, statusActions>>

\* the state of the admin's course list, which the editors, the request form
\* and the faculty dashboard leave alone
restVars == <<coursesCollection, courses, calls, nextDocId, pendingLoads,
              managerLoading, processing, statusCalls, statusActions>>

\* the calls of the admin grid and of the faculty dashboard that are still
\* running, which the course list leaves alone
asyncVars == <<calls, nextDocId, pendingLoads, managerLoading, processing,
               statusCalls, statusActions>>

\* processing === null: the requests are numbered from 1
NoRequest == 0

AsyncIdle ==
    /\ calls = {}
    /\ nextDocId = 1
    /\ pendingLoads = {}
    /\ managerLoading = FALSE
    /\ processing = NoRequest
    /\ statusCalls = {}
    /\ statusActions = 0

RestIdle ==
    /\ coursesCollection = <<>>
    /\ courses = {}
    /\ AsyncIdle

(***************************************************************************)
(* Bounds                                                                  *)
(***************************************************************************)
\* how many of the sample times of day the time texts are built from
NumTimes == 5

\* how many documents the timetables collection, and one in-memory timetable,
\* may hold
MaxDocs == 2

\* how many documents the attendanceRequests collection may hold
MaxRequests == 2

(***************************************************************************)
(* Characters, numbers and the JavaScript string operations the code uses  *)
(***************************************************************************)
Digits == {"0", "1", "2", "3", "4", "5", "6", "7", "8", "9"}

DigitChars == <<"0", "1", "2", "3", "4", "5", "6", "7", "8", "9">>

DigitVal(c) == CHOOSE v \in 0..9 : DigitChars[v + 1] = c

\* a JavaScript number: either NaN or an integer
NaN == [nan |-> TRUE, val |-> 0]

Num(v) == [nan |-> FALSE, val |-> v]

NumAdd(a, b) == IF a.nan \/ b.nan THEN NaN ELSE Num(a.val + b.val)

NumMul(a, b) == IF a.nan \/ b.nan THEN NaN ELSE Num(a.val * b.val)

\* a < b and a >= b on JavaScript numbers: every comparison with NaN is false
NumLt(a, b) == ~a.nan /\ ~b.nan /\ a.val < b.val

NumGe(a, b) == ~a.nan /\ ~b.nan /\ a.val >= b.val

\* the value of a missing array element, as parseInt sees it
undefined == <<"u", "n", "d", "e", "f", "i", "n", "e", "d">>

\* String.prototype.indexOf, 1-based; 0 when sep does not occur
indexOf(s, sep) ==
    LET hits == {i \in 1..(Len(s) - Len(sep) + 1) :
                    SubSeq(s, i, i + Len(sep) - 1) = sep}
    IN  IF hits = {} THEN 0 ELSE CHOOSE i \in hits : \A j \in hits : i <= j

\* String.prototype.includes
includes(s, sep) == indexOf(s, sep) # 0

RECURSIVE split(_, _)
\* String.prototype.split with a non-empty separator
split(s, sep) ==
    LET i == indexOf(s, sep)
    IN  IF i = 0 THEN <<s>>
        ELSE <<SubSeq(s, 1, i - 1)>> \o split(SubSeq(s, i + Len(sep), Len(s)), sep)

\* the white space String.prototype.trim removes, as far as the texts here use it
WhiteSpace == {" ", "\t", "\r", "\n"}

RECURSIVE trimStart(_)
trimStart(s) ==
    IF Len(s) > 0 /\ s[1] \in WhiteSpace THEN trimStart(Tail(s)) ELSE s

RECURSIVE trimEnd(_)
trimEnd(s) ==
    IF Len(s) > 0 /\ s[Len(s)] \in WhiteSpace
    THEN trimEnd(SubSeq(s, 1, Len(s) - 1))
    ELSE s

\* String.prototype.trim
trim(s) == trimEnd(trimStart(s))

RECURSIVE parseDigits(_, _, _)
\* the value of the digits of s from position i up to the first non-digit
parseDigits(s, i, acc) ==
    IF i <= Len(s) /\ s[i] \in Digits
    THEN parseDigits(s, i + 1, acc * 10 + DigitVal(s[i]))
    ELSE acc

\* parseInt(s) with the default radix: leading blanks, an optional sign, then
\* the longest run of digits; NaN when there is no digit
parseInt(s) ==
    LET t == trimStart(s)
        neg == Len(t) > 0 /\ t[1] = "-"
        u == IF Len(t) > 0 /\ t[1] \in {"-", "+"} THEN Tail(t) ELSE t
    IN  IF Len(u) = 0 \/ u[1] \notin Digits THEN NaN
        ELSE IF neg THEN Num(0 - parseDigits(u, 1, 0)) ELSE Num(parseDigits(u, 1, 0))

\* n.toString().padStart(2, '0') for 0 <= n <= 99
padStart2(n) ==
    IF n < 10 THEN <<"0", DigitChars[n + 1]>>
    ELSE <<DigitChars[(n \div 10) + 1], DigitChars[(n % 10) + 1]>>

\* n.toString() for 0 <= n <= 99
toString(n) ==
    IF n < 10 THEN <<DigitChars[n + 1]>> ELSE padStart2(n)

\* `${hour.toString().padStart(2, '0')}:${minute.toString().padStart(2, '0')}`
timeString(hour, minute) == padStart2(hour) \o <<":">> \o padStart2(minute)

Separator == <<" ", "-", " ">>

\* `${startTime} - ${endTime}`
timeRangeText(startTime, endTime) == startTime \o Separator \o endTime

(***************************************************************************)
(* utils/weekUtils: parseTimeToMinutes, checkTimeOverlap, validateTimeRange*)
(***************************************************************************)
\* hour % 12 on a JavaScript number: the sign of the dividend is kept
NumRem12(a) ==
    IF a.nan THEN NaN
    ELSE IF a.val >= 0 THEN Num(a.val % 12) ELSE Num(0 - ((0 - a.val) % 12))

\* `${n}` for an integer of at most two digits
numberText(n) == IF n < 0 THEN <<"-">> \o toString(0 - n) ELSE toString(n)

\* a mutant: noon is labelled AM
formatSingleTime_noonAM(time) ==
    LET parts == split(time, <<":">>)
        hours == parts[1]
        minutes == IF Len(parts) >= 2 THEN parts[2] ELSE undefined
        hour == parseInt(hours)
        ampm == IF NumGe(hour, Num(13)) THEN <<"P", "M">> ELSE <<"A", "M">>
        rem == NumRem12(hour)
        displayHour == IF rem.nan \/ rem.val = 0 THEN 12 ELSE rem.val
    IN  numberText(displayHour) \o <<":">> \o minutes \o <<" ">> \o ampm

\* weekUtils.formatSingleTime: `${displayHour}:${minutes} ${ampm}`, where
\* hour % 12 || 12 is 12 when the remainder is 0 or NaN
formatSingleTime(time) ==
    LET parts == split(time, <<":">>)
        hours == parts[1]
        minutes == IF Len(parts) >= 2 THEN parts[2] ELSE undefined
        hour == parseInt(hours)
        ampm == IF NumGe(hour, Num(12)) THEN <<"P", "M">> ELSE <<"A", "M">>
        rem == NumRem12(hour)
        displayHour == IF rem.nan \/ rem.val = 0 THEN 12 ELSE rem.val
    IN  numberText(displayHour) \o <<":">> \o minutes \o <<" ">> \o ampm

\* weekUtils.formatTimeSlot: the first two parts of a text with ' - '
formatTimeSlot(time) ==
    IF includes(time, Separator)
    THEN LET parts == split(time, Separator)
         IN  formatSingleTime(parts[1]) \o Separator \o formatSingleTime(parts[2])
    ELSE formatSingleTime(time)

parseTimeToMinutes(time) ==
    LET parts == split(time, <<":">>)
        hours == parts[1]
        minutes == IF Len(parts) >= 2 THEN parts[2] ELSE undefined
    IN  NumAdd(NumMul(parseInt(hours), Num(60)), parseInt(minutes))

\* a mutant: a single time is taken to last 30 minutes
parseTimeRange_half(timeStr) ==
    IF includes(timeStr, Separator)
    THEN LET parts == split(timeStr, Separator)
         IN  [start |-> parseTimeToMinutes(parts[1]),
              end |-> parseTimeToMinutes(parts[2])]
    ELSE LET start == parseTimeToMinutes(timeStr)
         IN  [start |-> start, end |-> NumAdd(start, Num(30))]

parseTimeRange(timeStr) ==
    IF includes(timeStr, Separator)
    THEN LET parts == split(timeStr, Separator)
         IN  [start |-> parseTimeToMinutes(parts[1]),
              end |-> parseTimeToMinutes(parts[2])]
    ELSE LET start == parseTimeToMinutes(timeStr)
         IN  [start |-> start, end |-> NumAdd(start, Num(60))]

\* a mutant: closed intervals, so ranges that only touch overlap
checkTimeOverlap_closed(t1, t2) ==
    LET range1 == parseTimeRange(t1)
        range2 == parseTimeRange(t2)
    IN  ~NumLt(range2.end, range1.start) /\ ~NumLt(range1.end, range2.start)

\* a mutant: only the first comparison is made
checkTimeOverlap_oneSided(t1, t2) ==
    LET range1 == parseTimeRange(t1)
        range2 == parseTimeRange(t2)
    IN  NumLt(range1.start, range2.end)

checkTimeOverlap(t1, t2) ==
    LET range1 == parseTimeRange(t1)
        range2 == parseTimeRange(t2)
    IN  NumLt(range1.start, range2.end) /\ NumLt(range2.start, range1.end)

\* /^([0-1]?[0-9]|2[0-3]):[0-5][0-9]$/.test(s)
timeRegexTest(s) ==
    \E hlen \in 1..2 :
        /\ Len(s) = hlen + 3
        /\ \/ hlen = 1 /\ s[1] \in Digits
           \/ hlen = 2 /\ s[1] \in {"0", "1"} /\ s[2] \in Digits
           \/ hlen = 2 /\ s[1] = "2" /\ s[2] \in {"0", "1", "2", "3"}
        /\ s[hlen + 1] = ":"
        /\ s[hlen + 2] \in {"0", "1", "2", "3", "4", "5"}
        /\ s[hlen + 3] \in Digits

ErrSeparator == "Time must be in format HH:MM - HH:MM"

ErrFormat == "Invalid time format. Use HH:MM format (e.g., 09:30)"

ErrOrder == "Start time must be before end time"

NoError == "undefined"

\* a mutant: an empty range (start = end) is accepted
validateTimeRange_allowEmpty(timeStr) ==
    IF ~includes(timeStr, Separator)
    THEN [isValid |-> FALSE, error |-> ErrSeparator]
    ELSE LET parts == split(timeStr, Separator)
             startTime == parts[1]
             endTime == parts[2]
         IN  IF ~timeRegexTest(trim(startTime)) \/ ~timeRegexTest(trim(endTime))
             THEN [isValid |-> FALSE, error |-> ErrFormat]
             ELSE IF NumLt(parseTimeToMinutes(trim(endTime)),
                           parseTimeToMinutes(trim(startTime)))
                  THEN [isValid |-> FALSE, error |-> ErrOrder]
                  ELSE [isValid |-> TRUE, error |-> NoError]

validateTimeRange(timeStr) ==
    IF ~includes(timeStr, Separator)
    THEN [isValid |-> FALSE, error |-> ErrSeparator]
    ELSE LET parts == split(timeStr, Separator)
             startTime == parts[1]
             endTime == parts[2]
         IN  IF ~timeRegexTest(trim(startTime)) \/ ~timeRegexTest(trim(endTime))
             THEN [isValid |-> FALSE, error |-> ErrFormat]
             ELSE IF NumGe(parseTimeToMinutes(trim(startTime)),
                           parseTimeToMinutes(trim(endTime)))
                  THEN [isValid |-> FALSE, error |-> ErrOrder]
                  ELSE [isValid |-> TRUE, error |-> NoError]

(***************************************************************************)
(* The timetables collection and the timetable editors                     *)
(*                                                                         *)
(* One editor session is followed: the admin's weekly grid                 *)
(* (TimetableManager) or a faculty member's "My Timetable"                 *)
(* (FacultyDashboard), both of which add entries through                   *)
(* TimetableEntryModal.  Other users write to the collection through the   *)
(* admin dashboard's "New Entry" form, CSV import and delete button.       *)
(* A document is its fields; the collection is a bag, so two documents     *)
(* with the same fields are two copies.  facultyName and date are left     *)
(* out: they follow from facultyId and day.  An in-memory timetable is a   *)
(* set of slots with at most one slot for a (day, time) key.               *)
(***************************************************************************)
Courses == {"BCA", "MCA"}

Semesters == {"1"}

\* days of the current week that are not past (the only ones with an
\* "Add Class" button)
Days == {"1", "2"}

FacultyIds == {"F1", "F2"}

\* the faculty member signed in when the session is a faculty session
currentFaculty == "F1"

\* the subject each faculty member teaches, as entered in the forms
SubjectOf(f) == IF f = "F1" THEN "Algorithms" ELSE "Maths"

Subjects == {SubjectOf(f) : f \in FacultyIds}

NoDay == "null"

\* half-hour slots of the day offered by the time selects: 18 is 09:00
OptionSlots == {18, 19, 20}

\* getTimeOptions(), its values, within OptionSlots
getTimeOptions == {timeString(i \div 2, (i % 2) * 30) : i \in OptionSlots}

EmptyText == <<>>

\* the time ranges the modal can produce
OptionRanges == {timeRangeText(a, b) : a \in getTimeOptions, b \in getTimeOptions}

NoModalError == [msg |-> "", subject |-> "", time |-> EmptyText]

ErrRequiredFields == "Please fill in all required fields."

ErrOverlap == "Time slot overlaps with existing class"

Message(m) == [msg |-> m, subject |-> "", time |-> EmptyText]

\* `Time slot overlaps with existing class "${subject}" (${time}). ...`
OverlapMessage(entry) == [msg |-> ErrOverlap, subject |-> entry.subject, time |-> entry.time]

\* a mutant: only an entry with exactly the same time text conflicts
timeConflicts_exact(entriesArray, timeRange) ==
    {entry \in entriesArray : entry.time = timeRange}

\* the existing entries whose time overlaps the new range
timeConflicts(entriesArray, timeRange) ==
    {entry \in entriesArray : checkTimeOverlap(entry.time, timeRange)}

\* a mutant: a form without a faculty member passes the check of the
\* required fields
handleSubmit_noFacultyCheck(form, existingEntries, showCourseSemester) ==
    LET missing ==
            \/ form.startTime = EmptyText
            \/ form.endTime = EmptyText
            \/ form.subject = ""
            \/ (showCourseSemester /\ (form.course = "" \/ form.semester = ""))
        timeRange == timeRangeText(form.startTime, form.endTime)
        timeValidation == validateTimeRange(timeRange)
        conflicting == timeConflicts(existingEntries, timeRange)
        entryData == [time |-> timeRange, subject |-> form.subject,
                      facultyId |-> form.facultyId, course |-> form.course,
                      semester |-> form.semester]
        rejected(err) == [error |-> err, saved |-> FALSE, entry |-> entryData]
    IN  IF missing THEN {rejected(Message(ErrRequiredFields))}
        ELSE IF ~timeValidation.isValid THEN {rejected(Message(timeValidation.error))}
        ELSE IF conflicting # {}
             THEN {rejected(OverlapMessage(c)) : c \in conflicting}
             ELSE {[error |-> NoModalError, saved |-> TRUE, entry |-> entryData]}

\* TimetableEntryModal.handleSubmit: the error it sets and the entry it hands
\* to onSave, if any.  Array.find returns the first conflicting entry in the
\* order of the entries; any conflicting entry can be the first.
handleSubmit(form, existingEntries, showCourseSemester) ==
    LET missing ==
            \/ form.startTime = EmptyText
            \/ form.endTime = EmptyText
            \/ form.subject = ""
            \/ form.facultyId = ""
            \/ (showCourseSemester /\ (form.course = "" \/ form.semester = ""))
        timeRange == timeRangeText(form.startTime, form.endTime)
        timeValidation == validateTimeRange(timeRange)
        conflicting == timeConflicts(existingEntries, timeRange)
        entryData == [time |-> timeRange, subject |-> form.subject,
                      facultyId |-> form.facultyId, course |-> form.course,
                      semester |-> form.semester]
        rejected(err) == [error |-> err, saved |-> FALSE, entry |-> entryData]
    IN  IF missing THEN {rejected(Message(ErrRequiredFields))}
        ELSE IF ~timeValidation.isValid THEN {rejected(Message(timeValidation.error))}
        ELSE IF conflicting # {}
             THEN {rejected(OverlapMessage(c)) : c \in conflicting}
             ELSE {[error |-> NoModalError, saved |-> TRUE, entry |-> entryData]}

\* documents of a bag that satisfy a query
Matching(coll, Q(_)) == {d \in BagToSet(coll) : Q(d)}

\* the bag without any copy of the documents in ds (deleteDoc on each)
DeleteAll(coll, ds) ==
    [d \in (DOMAIN coll) \ ds |-> coll[d]]

\* addDoc
AddDoc(coll, d) == coll (+) SetToBag({d})

\* deleteDoc of one document
DeleteOne(coll, d) == coll (-) SetToBag({d})

SlotKey(e) == <<e.day, e.time>>

\* weekly[day][time] = slot: a slot replaces the one with the same key
PutSlot(tt, slot) == {e \in tt : SlotKey(e) # SlotKey(slot)} \cup {slot}

\* the weekly timetable built from loaded documents by forEach: when several
\* documents have the same (day, time) the last one in snapshot order stays,
\* and any of them can be the last
WeeklyViews(slots) ==
    {tt \in SUBSET slots :
        /\ \A e \in slots : \E f \in tt : SlotKey(f) = SlotKey(e)
        /\ \A e, f \in tt : SlotKey(e) = SlotKey(f) => e = f}

\* TimetableManager keeps subject, faculty and time of a document
ManagerSlot(d) ==
    [day |-> d.day, time |-> d.time, subject |-> d.subject,
     facultyId |-> d.facultyId, course |-> "", semester |-> ""]

\* FacultyDashboard also keeps course and semester
FacultySlot(d) ==
    [day |-> d.day, time |-> d.time, subject |-> d.subject,
     facultyId |-> d.facultyId, course |-> d.course, semester |-> d.semester]

TimetableDoc(course, semester, day, time, subject, facultyId) ==
    [course |-> course, semester |-> semester, day |-> day, time |-> time,
     subject |-> subject, facultyId |-> facultyId]

\* no timetable editor is in use
TimetableIdle ==
    /\ timetables = EmptyBag
    /\ role = "none"
    /\ selectedCourse = ""
    /\ selectedSemester = ""
    /\ timetable = {}
    /\ selectedDay = NoDay
    /\ modalError = NoModalError

InSelection(d) == d.course = selectedCourse /\ d.semester = selectedSemester

OfCurrentFaculty(d) == d.facultyId = currentFaculty

\* TimetableManager: the course select's onChange
MgrSelectCourse(c) ==
    /\ role = "admin"
    /\ selectedDay = NoDay
    /\ selectedCourse' = c
    /\ selectedSemester' = ""
    /\ timetable' = {}
    /\ UNCHANGED <<timetables, role, selectedDay, modalError>>
    /\ UNCHANGED <<timeVars, reqVars>>
    /\ UNCHANGED restVars

\* TimetableManager: the semester select's onChange, and loadTimetable run by
\* the effect when course and semester are both set
MgrSelectSemester(s) ==
    /\ role = "admin"
    /\ selectedDay = NoDay
    /\ selectedCourse # ""
    /\ s # selectedSemester
    /\ selectedSemester' = s
    /\ IF s = "" THEN timetable' = timetable
       ELSE timetable' \in WeeklyViews(
                {ManagerSlot(d) : d \in Matching(timetables,
                    LAMBDA d : d.course = selectedCourse /\ d.semester = s)})
    /\ UNCHANGED <<timetables, role, selectedCourse, selectedDay, modalError>>
    /\ UNCHANGED <<timeVars, reqVars>>
    /\ UNCHANGED restVars

\* FacultyDashboard: loadTimetable, run when the dashboard is opened
FacLoadTimetable ==
    /\ role = "faculty"
    /\ selectedDay = NoDay
    /\ timetable' \in WeeklyViews(
            {FacultySlot(d) : d \in Matching(timetables, OfCurrentFaculty)})
    /\ UNCHANGED <<timetables, role, selectedCourse, selectedSemester,
                   selectedDay, modalError>>
    /\ UNCHANGED <<timeVars, reqVars>>
    /\ UNCHANGED restVars

\* openAddEntryModal of either editor; the modal is mounted afresh
OpenAddEntryModal(day) ==
    /\ role \in {"admin", "faculty"}
    /\ role = "admin" => (selectedCourse # "" /\ selectedSemester # "")
    /\ selectedDay = NoDay
    /\ selectedDay' = day
    /\ modalError' = NoModalError
    /\ UNCHANGED <<timetables, role, selectedCourse, selectedSemester, timetable>>
    /\ UNCHANGED <<timeVars, reqVars>>
    /\ UNCHANGED restVars

\* the modal's Cancel button: closeModal / onClose
CloseModal ==
    /\ selectedDay # NoDay
    /\ selectedDay' = NoDay
    /\ modalError' = NoModalError
    /\ UNCHANGED <<timetables, role, selectedCourse, selectedSemester, timetable>>
    /\ UNCHANGED <<timeVars, reqVars>>
    /\ UNCHANGED restVars

ExistingEntries(day) == {e \in timetable : e.day = day}

\* TimetableManager.persistSingleEntry: delete the documents of the same
\* course, semester, day and time, then add the new one
persistSingleEntry(coll, dayOfWeek, slot) ==
    AddDoc(DeleteAll(coll, Matching(coll,
               LAMBDA d : InSelection(d) /\ d.day = dayOfWeek /\ d.time = slot.time)),
           TimetableDoc(selectedCourse, selectedSemester, dayOfWeek, slot.time,
                        slot.subject, slot.facultyId))

\* The admin submits the modal's form.  Accepted: TimetableManager's
\* addTimetableEntry puts the slot in the timetable and persists it, and the
\* modal closes.  Rejected: the modal stays open with its error.
MgrHandleSubmit(startTime, endTime, facultyId, subject) ==
    /\ role = "admin"
    /\ selectedDay # NoDay
    /\ \E r \in handleSubmit([startTime |-> startTime, endTime |-> endTime,
                              subject |-> subject, facultyId |-> facultyId,
                              course |-> "", semester |-> ""],
                             ExistingEntries(selectedDay), FALSE) :
          IF r.saved
          THEN LET slot == [day |-> selectedDay, time |-> r.entry.time,
                            subject |-> r.entry.subject,
                            facultyId |-> r.entry.facultyId,
                            course |-> "", semester |-> ""]
               IN  /\ Cardinality(timetable) < MaxDocs
                   /\ BagCardinality(timetables) < MaxDocs
                   /\ timetable' = PutSlot(timetable, slot)
                   /\ timetables' = persistSingleEntry(timetables, selectedDay, slot)
                   /\ selectedDay' = NoDay
                   /\ modalError' = NoModalError
          ELSE /\ modalError' = r.error
               /\ UNCHANGED <<timetables, timetable, selectedDay>>
    /\ UNCHANGED <<role, selectedCourse, selectedSemester>>
    /\ UNCHANGED <<timeVars, reqVars>>
    /\ UNCHANGED restVars

\* The faculty member submits the modal's form.  Accepted: FacultyDashboard's
\* addTimetableEntry puts the slot in the timetable and adds a document.
FacHandleSubmit(startTime, endTime, course, semester) ==
    /\ role = "faculty"
    /\ selectedDay # NoDay
    /\ \E r \in handleSubmit([startTime |-> startTime, endTime |-> endTime,
                              subject |-> SubjectOf(currentFaculty),
                              facultyId |-> currentFaculty,
                              course |-> course, semester |-> semester],
                             ExistingEntries(selectedDay), TRUE) :
          IF r.saved
          THEN LET slot == [day |-> selectedDay, time |-> r.entry.time,
                            subject |-> r.entry.subject,
                            facultyId |-> r.entry.facultyId,
                            course |-> r.entry.course,
                            semester |-> r.entry.semester]
               IN  /\ Cardinality(timetable) < MaxDocs
                   /\ BagCardinality(timetables) < MaxDocs
                   /\ timetable' = PutSlot(timetable, slot)
                   /\ timetables' = AddDoc(timetables,
                         TimetableDoc(slot.course, slot.semester, selectedDay,
                                      slot.time, slot.subject, currentFaculty))
                   /\ selectedDay' = NoDay
                   /\ modalError' = NoModalError
          ELSE /\ modalError' = r.error
               /\ UNCHANGED <<timetables, timetable, selectedDay>>
    /\ UNCHANGED <<role, selectedCourse, selectedSemester>>
    /\ UNCHANGED <<timeVars, reqVars>>
    /\ UNCHANGED restVars

\* removeTimeSlot of either editor: the slot leaves the timetable and the
\* documents found for it are deleted (deleteSingleEntry in the admin grid)
RemoveTimeSlot(slot) ==
    /\ role \in {"admin", "faculty"}
    /\ selectedDay = NoDay
    /\ role = "admin" => (selectedCourse # "" /\ selectedSemester # "")
    /\ slot \in timetable
    /\ timetable' = timetable \ {slot}
    /\ timetables' = DeleteAll(timetables, Matching(timetables,
          LAMBDA d : /\ d.day = slot.day
                     /\ d.time = slot.time
                     /\ IF role = "admin" THEN InSelection(d) ELSE OfCurrentFaculty(d)))
    /\ UNCHANGED <<role, selectedCourse, selectedSemester, selectedDay, modalError>>
    /\ UNCHANGED <<timeVars, reqVars>>
    /\ UNCHANGED restVars

\* TimetableManager.error holding the message m; setError('') is m = ""
ManagerError(m) == [msg |-> m, subject |-> "", dayName |-> ""]

ErrSaveClass == "Failed to save class"

ErrRemoveClass == "Failed to remove class"

\* The modal's form is accepted and the first call to the store that the
\* editor's addTimetableEntry leads to throws: the slot is already in the
\* in-memory timetable.  FacultyDashboard catches the error and sets a
\* message; TimetableManager has started persistSingleEntry with void.
AddTimetableEntryFails(form) ==
    /\ role \in {"admin", "faculty"}
    /\ selectedDay # NoDay
    /\ \E r \in handleSubmit(form, ExistingEntries(selectedDay), role = "faculty") :
          /\ r.saved
          /\ Cardinality(timetable) < MaxDocs
          /\ timetable' = PutSlot(timetable,
                                  [day |-> selectedDay, time |-> r.entry.time,
                                   subject |-> r.entry.subject,
                                   facultyId |-> r.entry.facultyId,
                                   course |-> r.entry.course,
                                   semester |-> r.entry.semester])
    /\ selectedDay' = NoDay
    /\ modalError' = NoModalError
    /\ error' = IF role = "faculty" THEN ManagerError(ErrSaveClass) ELSE error
    /\ UNCHANGED <<timetables, role, selectedCourse, selectedSemester>>
    /\ UNCHANGED <<now, attendanceRequests, teacherStatus, showRequestForm,
                   weekDates, loading, loadRequestsPending, requests,
                   selectedSlots, filter>>
    /\ UNCHANGED timeVars
    /\ UNCHANGED restVars

\* removeTimeSlot when the query for the slot's documents throws: the slot
\* has already left the in-memory timetable
RemoveTimeSlotFails(slot) ==
    /\ role \in {"admin", "faculty"}
    /\ selectedDay = NoDay
    /\ role = "admin" => (selectedCourse # "" /\ selectedSemester # "")
    /\ slot \in timetable
    /\ timetable' = timetable \ {slot}
    /\ error' = IF role = "faculty" THEN ManagerError(ErrRemoveClass) ELSE error
    /\ UNCHANGED <<timetables, role, selectedCourse, selectedSemester, selectedDay,
                   modalError>>
    /\ UNCHANGED <<now, attendanceRequests, teacherStatus, showRequestForm,
                   weekDates, loading, loadRequestsPending, requests,
                   selectedSlots, filter>>
    /\ UNCHANGED timeVars
    /\ UNCHANGED restVars

\* the documents saveTimetable adds: one for each slot with subject and faculty
entriesToAdd ==
    SetToBag({TimetableDoc(selectedCourse, selectedSemester, e.day, e.time,
                           e.subject, e.facultyId) :
                 e \in {x \in timetable : x.subject # "" /\ x.facultyId # ""}})

ErrSaveFailed == "Failed to save timetable"

\* a mutant: the existing documents are not deleted
MgrSaveTimetable_appendOnly ==
    /\ role = "admin"
    /\ selectedDay = NoDay
    /\ selectedCourse # "" /\ selectedSemester # ""
    /\ timetables' = timetables (+) entriesToAdd
    /\ BagCardinality(timetables') <= MaxDocs
    /\ error' = ManagerError("")
    /\ UNCHANGED editorVars
    /\ UNCHANGED <<now, attendanceRequests, teacherStatus, showRequestForm,
                   weekDates, loading, loadRequestsPending, requests,
                   selectedSlots, filter>>
    /\ op' = "saveTimetable"
    /\ UNCHANGED <<in1, in2, time1, time2, out>>
    /\ UNCHANGED restVars

\* TimetableManager.saveTimetable: delete every document of the course and
\* semester, then add the in-memory entries
MgrSaveTimetable ==
    /\ role = "admin"
    /\ selectedDay = NoDay
    /\ selectedCourse # "" /\ selectedSemester # ""
    /\ timetables' = DeleteAll(timetables, Matching(timetables, InSelection))
                        (+) entriesToAdd
    /\ BagCardinality(timetables') <= MaxDocs
    /\ error' = ManagerError("")
    /\ UNCHANGED editorVars
    /\ UNCHANGED <<now, attendanceRequests, teacherStatus, showRequestForm,
                   weekDates, loading, loadRequestsPending, requests,
                   selectedSlots, filter>>
    /\ op' = "saveTimetable"
    /\ UNCHANGED <<in1, in2, time1, time2, out>>
    /\ UNCHANGED restVars

\* the calls to the store in which a run of saveTimetable can fail: the
\* query of the existing documents, a deleteDoc, an addDoc
SaveStages == {"query", "delete", "insert"}

\* the position of a day key in Object.entries(timetable): integer keys come
\* in ascending order
dayKeyIndex(day) == CHOOSE i \in 0..9 : DigitChars[i + 1] = day

\* the entries are added day by day, in the order of the day keys
DayPrefix(added, all) ==
    \A a \in added, e \in all : dayKeyIndex(e.day) < dayKeyIndex(a.day)
                                    => e \in added

\* a mutant: a failed save leaves the stored timetable as it was
SaveTimetableFails_atomic(stage) ==
    /\ role = "admin"
    /\ selectedDay = NoDay
    /\ selectedCourse # "" /\ selectedSemester # ""
    /\ stage \in SaveStages
    /\ timetables' = timetables
    /\ error' = ManagerError(ErrSaveFailed)
    /\ UNCHANGED editorVars
    /\ UNCHANGED <<now, attendanceRequests, teacherStatus, showRequestForm,
                   weekDates, loading, loadRequestsPending, requests,
                   selectedSlots, filter>>
    /\ UNCHANGED timeVars
    /\ UNCHANGED restVars

\* TimetableManager.saveTimetable when a call to the store throws: the calls
\* made before it have taken effect, the catch block sets the error
SaveTimetableFails(stage) ==
    /\ role = "admin"
    /\ selectedDay = NoDay
    /\ selectedCourse # "" /\ selectedSemester # ""
    /\ LET existing == Matching(timetables, InSelection)
           entries == BagToSet(entriesToAdd)
       IN  \/ /\ stage = "query"
              /\ timetables' = timetables
           \/ /\ stage = "delete"
              /\ \E deleted \in (SUBSET existing) \ {existing} :
                    timetables' = DeleteAll(timetables, deleted)
           \/ /\ stage = "insert"
              /\ \E added \in (SUBSET entries) \ {entries} :
                    /\ DayPrefix(added, entries)
                    /\ timetables' = DeleteAll(timetables, existing) (+) SetToBag(added)
    /\ error' = ManagerError(ErrSaveFailed)
    /\ UNCHANGED editorVars
    /\ UNCHANGED <<now, attendanceRequests, teacherStatus, showRequestForm,
                   weekDates, loading, loadRequestsPending, requests,
                   selectedSlots, filter>>
    /\ UNCHANGED timeVars
    /\ UNCHANGED restVars

\* what the admin dashboard's "New Entry" form is filled with: a class that
\* overlaps the first options, a bare time, and a form without a course
FormEntries ==
    {TimetableDoc("BCA", "1", "1", timeRangeText(timeString(9, 0), timeString(10, 0)),
                  "Maths", "F2"),
     TimetableDoc("BCA", "1", "1", timeString(9, 30), "Maths", "F2"),
     TimetableDoc("", "1", "1", timeRangeText(timeString(9, 0), timeString(10, 0)),
                  "Maths", "F2")}

\* AdminDashboard.addTimetableEntry: course, semester and subject are required
AdminAddTimetableEntry(timetableData) ==
    /\ timetableData.course # ""
    /\ timetableData.semester # ""
    /\ timetableData.subject # ""
    /\ BagCardinality(timetables) < MaxDocs
    /\ timetables' = AddDoc(timetables, timetableData)
    /\ UNCHANGED editorVars
    /\ UNCHANGED <<timeVars, reqVars>>
    /\ UNCHANGED restVars

\* AdminDashboard.deleteTimetableEntry
AdminDeleteTimetableEntry(d) ==
    /\ d \in BagToSet(timetables)
    /\ timetables' = DeleteOne(timetables, d)
    /\ UNCHANGED editorVars
    /\ UNCHANGED <<timeVars, reqVars>>
    /\ UNCHANGED restVars

(***************************************************************************)
(* AdminDashboard.handleCsvUpload                                          *)
(***************************************************************************)
UpperCase ==
    <<"A", "B", "C", "D", "E", "F", "G", "H", "I", "J", "K", "L", "M", "N", "O", "P", "Q", "R", "S", "T", "U", "V", "W", "X", "Y", "Z">>

LowerCase ==
    <<"a", "b", "c", "d", "e", "f", "g", "h", "i", "j", "k", "l", "m", "n", "o", "p", "q", "r", "s", "t", "u", "v", "w", "x", "y", "z">>

\* String.prototype.toLowerCase on the letters A to Z
toLowerCase(s) ==
    [i \in 1..Len(s) |->
        IF \E k \in 1..26 : UpperCase[k] = s[i]
        THEN LowerCase[CHOOSE k \in 1..26 : UpperCase[k] = s[i]]
        ELSE s[i]]

RECURSIVE splitLines(_)
\* text.split(/\r?\n/): a line ends at "\n", or at "\r" directly before it
splitLines(text) ==
    LET i == indexOf(text, <<"\n">>)
    IN  IF i = 0 THEN <<text>>
        ELSE LET line == SubSeq(text, 1, i - 1)
                 cut == IF Len(line) > 0 /\ line[Len(line)] = "\r"
                        THEN SubSeq(line, 1, Len(line) - 1)
                        ELSE line
             IN  <<cut>> \o splitLines(SubSeq(text, i + 1, Len(text)))

\* Array.prototype.indexOf, 1-based; 0 when x is not an element
arrayIndexOf(a, x) ==
    IF \E i \in 1..Len(a) : a[i] = x
    THEN CHOOSE i \in 1..Len(a) : a[i] = x /\ \A j \in 1..(i - 1) : a[j] # x
    ELSE 0

\* the column names handleCsvUpload requires, lower case
required ==
    <<<<"c", "o", "u", "r", "s", "e">>,
      <<"s", "e", "m", "e", "s", "t", "e", "r">>,
      <<"d", "a", "y">>,
      <<"t", "i", "m", "e">>,
      <<"s", "u", "b", "j", "e", "c", "t">>,
      <<"f", "a", "c", "u", "l", "t", "y", "i", "d">>,
      <<"f", "a", "c", "u", "l", "t", "y", "n", "a", "m", "e">>>>

ErrNoDataRows == "CSV has no data rows."

ErrMissingColumns == "Missing columns:"

\* AdminDashboard.error holding the message m
AdminError(m) == [msg |-> m, subject |-> "", dayName |-> ""]

\* what one upload did: the message set, the columns reported missing, and
\* the number in `Uploaded ${batchEntries.length} timetable entries.`
NoUpload == [error |-> "", missing |-> <<>>, uploaded |-> -1]

\* the lines of the file that are not blank
csvLines(text) == SelectSeq(splitLines(text), LAMBDA l : Len(trim(l)) > 0)

\* lines[0].split(',').map(h => h.trim().toLowerCase())
csvHeader(lines) ==
    LET cells == split(lines[1], <<",">>)
    IN  [i \in 1..Len(cells) |-> toLowerCase(trim(cells[i]))]

\* a mutant: a row with an empty subject is kept
csvEntry_keepNoSubject(header, line) ==
    LET cols == split(line, <<",">>)
        cell(name) == trim(cols[arrayIndexOf(header, name)])
    IN  IF Len(cols) # Len(header) THEN <<>>
        ELSE LET entry == [course |-> cell(required[1]),
                           semester |-> cell(required[2]),
                           day |-> cell(required[3]),
                           time |-> cell(required[4]),
                           subject |-> cell(required[5]),
                           facultyId |-> cell(required[6]),
                           facultyName |-> cell(required[7])]
             IN  IF entry.course = <<>> \/ entry.semester = <<>>
                 THEN <<>>
                 ELSE <<entry>>

\* the entry one data line contributes to batchEntries: none when the number
\* of its cells differs from the header's or course, semester or subject is
\* empty after trimming
csvEntry(header, line) ==
    LET cols == split(line, <<",">>)
        cell(name) == trim(cols[arrayIndexOf(header, name)])
    IN  IF Len(cols) # Len(header) THEN <<>>
        ELSE LET entry == [course |-> cell(required[1]),
                           semester |-> cell(required[2]),
                           day |-> cell(required[3]),
                           time |-> cell(required[4]),
                           subject |-> cell(required[5]),
                           facultyId |-> cell(required[6]),
                           facultyName |-> cell(required[7])]
             IN  IF entry.course = <<>> \/ entry.semester = <<>> \/ entry.subject = <<>>
                 THEN <<>>
                 ELSE <<entry>>

RECURSIVE batchEntries(_, _, _)
\* the entries of the lines from the i-th on
batchEntries(header, lines, i) ==
    IF i > Len(lines) THEN <<>>
    ELSE csvEntry(header, lines[i]) \o batchEntries(header, lines, i + 1)

RECURSIVE AddDocs(_, _)
\* addDoc for each entry in turn
AddDocs(coll, entries) ==
    IF entries = <<>> THEN coll
    ELSE AddDocs(AddDoc(coll, Head(entries)), Tail(entries))

\* AdminDashboard.handleCsvUpload on a file with the given text
HandleCsvUpload(text) ==
    /\ role = "admin"
    /\ op = "none"
    /\ LET lines == csvLines(text)
       IN  IF Len(lines) < 2
           THEN /\ timetables' = timetables
                /\ error' = AdminError(ErrNoDataRows)
                /\ out' = [NoUpload EXCEPT !.error = ErrNoDataRows]
           ELSE LET header == csvHeader(lines)
                    missing == SelectSeq(required,
                                         LAMBDA r : arrayIndexOf(header, r) = 0)
                IN  IF Len(missing) > 0
                    THEN /\ timetables' = timetables
                         /\ error' = AdminError(ErrMissingColumns)
                         /\ out' = [NoUpload EXCEPT !.error = ErrMissingColumns,
                                                    !.missing = missing]
                    ELSE LET entries == batchEntries(header, lines, 2)
                         IN  /\ timetables' = AddDocs(timetables, entries)
                             /\ error' = AdminError("")
                             /\ out' = [NoUpload EXCEPT !.uploaded = Len(entries)]
    /\ op' = "handleCsvUpload"
    /\ UNCHANGED <<in1, in2, time1, time2>>
    /\ UNCHANGED editorVars
    /\ UNCHANGED <<now, attendanceRequests, teacherStatus, showRequestForm,
                   weekDates, loading, loadRequestsPending, requests,
                   selectedSlots, filter>>
    /\ UNCHANGED restVars

(***************************************************************************)
(* AdminDashboard: the course list                                         *)
(***************************************************************************)
\* how many documents the courses collection may ever have been given
MaxCourses == 3

\* what the course form's name field is filled with
CourseNames == {<<"B", "C", "A">>, <<"b", "c", "a">>, <<"M", "C", "A">>, <<>>}

\* the place of a deleted document in the collection (no document has an
\* empty name: addCourse refuses it)
Deleted == <<>>

ErrNoCourseName == "Please enter a course name."

ErrCourseExists == "A course with this name already exists."

\* the documents of the courses collection, each with its id
courseDocs ==
    {[id |-> i, name |-> coursesCollection[i]] :
        i \in {j \in 1..Len(coursesCollection) : coursesCollection[j] # Deleted}}

\* AdminDashboard.loadCourses resolves (started on mount and, un-awaited, at
\* the end of addCourse and deleteCourse)
LoadCourses ==
    /\ role = "admin"
    /\ courses' = courseDocs
    /\ courses' # courses
    /\ UNCHANGED coursesCollection
    /\ UNCHANGED <<timeVars, ttVars, reqVars>>
    /\ UNCHANGED asyncVars

\* courses.find(c => c.name.toLowerCase() === courseData.name.toLowerCase())
existingCourse(name) ==
    {c \in courses : toLowerCase(c.name) = toLowerCase(name)}

\* AdminDashboard.addCourse with the form's name field
AddCourse(name) ==
    /\ role = "admin"
    /\ IF name = <<>>
       THEN /\ error' = AdminError(ErrNoCourseName)
            /\ UNCHANGED coursesCollection
       ELSE IF existingCourse(name) # {}
       THEN /\ error' = AdminError(ErrCourseExists)
            /\ UNCHANGED coursesCollection
       ELSE /\ Len(coursesCollection) < MaxCourses
            /\ coursesCollection' = Append(coursesCollection, name)
            /\ UNCHANGED error
    /\ UNCHANGED courses
    /\ UNCHANGED <<now, attendanceRequests, teacherStatus, showRequestForm,
                   weekDates, loading, loadRequestsPending, requests,
                   selectedSlots, filter>>
    /\ UNCHANGED <<timeVars, ttVars>>
    /\ UNCHANGED asyncVars

\* AdminDashboard.deleteCourse, from the Delete button of a listed course
DeleteCourse(id) ==
    /\ role = "admin"
    /\ \E c \in courses : c.id = id
    /\ coursesCollection' = [coursesCollection EXCEPT ![id] = Deleted]
    /\ UNCHANGED courses
    /\ UNCHANGED <<timeVars, ttVars, reqVars>>
    /\ UNCHANGED asyncVars

\* the form's error is dismissed
ClearCourseError ==
    /\ role = "admin"
    /\ error # AdminError("")
    /\ error' = AdminError("")
    /\ UNCHANGED <<coursesCollection, courses>>
    /\ UNCHANGED <<now, attendanceRequests, teacherStatus, showRequestForm,
                   weekDates, loading, loadRequestsPending, requests,
                   selectedSlots, filter>>
    /\ UNCHANGED <<timeVars, ttVars>>
    /\ UNCHANGED asyncVars

(***************************************************************************)
(* Dates, the current week and the student's absence-request form          *)
(***************************************************************************)
\* a JavaScript Date: a day number (day 0 is a Sunday) and the minutes since
\* local midnight, or an Invalid Date
InvalidDate == [date |-> 0, minutes |-> 0, valid |-> FALSE]

Date(d, m) == [date |-> d, minutes |-> m, valid |-> TRUE]

\* a < b on Dates; a comparison with an Invalid Date is false
DateLt(a, b) ==
    /\ a.valid /\ b.valid
    /\ \/ a.date < b.date
       \/ (a.date = b.date /\ a.minutes < b.minutes)

\* date.setHours(hours, minutes, 0, 0)
setHours(date, hours, minutes) ==
    IF ~date.valid \/ hours.nan \/ minutes.nan THEN InvalidDate
    ELSE LET total == hours.val * 60 + minutes.val
         IN  Date(date.date + (total \div 1440), total % 1440)

dayNames == <<"Sunday", "Monday", "Tuesday", "Wednesday", "Thursday", "Friday",
              "Saturday">>

WeekDays == 0..6

\* Number.toString of a weekday index
dayOfWeekString(i) == DigitChars[i + 1]

\* a mutant: today counts as past
getCurrentWeekDates_todayIsPast(today) ==
    LET currentDay == today.date % 7
        startOfWeek == Date(today.date - currentDay, today.minutes)
    IN  [i \in WeekDays |->
            LET date == Date(startOfWeek.date + i, startOfWeek.minutes)
                isToday == date.date = today.date
            IN  [date |-> date, dayOfWeek |-> i, dayName |-> dayNames[i + 1],
                 isToday |-> isToday,
                 isPast |-> date.date <= today.date]]

\* getCurrentWeekDates, with today = new Date()
getCurrentWeekDates(today) ==
    LET currentDay == today.date % 7
        startOfWeek == Date(today.date - currentDay, today.minutes)
    IN  [i \in WeekDays |->
            LET date == Date(startOfWeek.date + i, startOfWeek.minutes)
                isToday == date.date = today.date
            IN  [date |-> date, dayOfWeek |-> i, dayName |-> dayNames[i + 1],
                 isToday |-> isToday,
                 isPast |-> DateLt(date, today) /\ ~isToday]]

\* a mutant: only the day of the slot is compared with the clock
isTimeSlotInPast_dateOnly(date, time) == date.date < now.date

\* a mutant: the end of a range is compared with the clock
isTimeSlotInPast_byEnd(date, time) ==
    LET halves == split(time, Separator)
        parts == split(halves[Len(halves)], <<":">>)
        slotDateTime == setHours(date, parseInt(parts[1]), parseInt(parts[2]))
    IN  DateLt(slotDateTime, now)

\* isTimeSlotInPast: the date with the slot's start time is before now
isTimeSlotInPast(date, time) ==
    LET startTime == IF includes(time, Separator)
                     THEN split(time, Separator)[1] ELSE time
        parts == split(startTime, <<":">>)
        hours == parts[1]
        minutes == IF Len(parts) >= 2 THEN parts[2] ELSE undefined
        slotDateTime == setHours(date, parseInt(hours), parseInt(minutes))
    IN  DateLt(slotDateTime, now)

\* the instants the clock goes through: a Monday at 09:15, and the Tuesday of
\* the week after at 08:00
Instants == <<Date(1, 555), Date(9, 480)>>

\* the student's course and semester, and the faculty member requests go to
studentCourse == "BCA"

studentSemester == "1"

\* the classes of the student's course in the timetables collection
ClassDocs ==
    {TimetableDoc(studentCourse, studentSemester, "1",
                  timeRangeText(timeString(9, 0), timeString(10, 0)),
                  "Algorithms", "F1"),
     TimetableDoc(studentCourse, studentSemester, "1", timeString(9, 30),
                  "Algorithms", "F1"),
     TimetableDoc(studentCourse, studentSemester, "2",
                  timeRangeText(timeString(9, 0), timeString(10, 0)),
                  "Maths", "F2")}

\* StudentRequestForm keeps subject, faculty, time and day of a document
StudentSlot(d) ==
    [day |-> d.day, time |-> d.time, subject |-> d.subject, facultyId |-> d.facultyId]

NoWeekDates == <<>>

NoFormError == [msg |-> "", subject |-> "", dayName |-> ""]

FormMessage(m) == [msg |-> m, subject |-> "", dayName |-> ""]

ErrPastSlot == "Cannot select past time slots"

ErrDuplicate == "You already have a pending request for"

ErrNoSlot == "Please select at least one class slot"

ErrNoFaculty == "Please select a faculty member"

ErrNoReason == "Please provide a reason for your absence"

\* `You already have a pending request for ${slot.subject} on ${weekDate.dayName}`
DuplicateMessage(slot, weekDate) ==
    [msg |-> ErrDuplicate, subject |-> slot.subject, dayName |-> weekDate.dayName]

\* the state of a form that is not mounted
FormClosed ==
    /\ showRequestForm = FALSE
    /\ weekDates = NoWeekDates
    /\ loading = TRUE
    /\ loadRequestsPending = FALSE
    /\ requests = <<>>
    /\ selectedSlots = {}
    /\ error = NoFormError

\* no student, clock or request is in play
RequestsIdle ==
    /\ now = Instants[1]
    /\ attendanceRequests = <<>>
    /\ teacherStatus = "none"
    /\ filter = "pending"
    /\ FormClosed

\* weekDates.find(wd => wd.dayOfWeek.toString() === dayOfWeek); every day of
\* a class is a weekday index, so the find succeeds
findWeekDate(dayOfWeek) ==
    weekDates[CHOOSE i \in WeekDays : dayOfWeekString(i) = dayOfWeek]

\* a mutant: rejected requests block as well
checkDuplicateRequest_anyStatus(slot, weekDate) ==
    \E i \in 1..Len(requests) : \E d \in requests[i].classDetails :
        /\ d.subject = slot.subject
        /\ d.day = slot.day
        /\ (d.time = slot.time \/ checkTimeOverlap(d.time, slot.time))

\* StudentRequestForm.checkDuplicateRequest; weekDate is not used
checkDuplicateRequest(slot, weekDate) ==
    \E i \in 1..Len(requests) : \E d \in requests[i].classDetails :
        /\ d.subject = slot.subject
        /\ d.day = slot.day
        /\ (d.time = slot.time \/ checkTimeOverlap(d.time, slot.time))
        /\ requests[i].status # "rejected"

\* StudentRequestForm.isSlotDisabled
isSlotDisabled(dayOfWeek, timeSlot, slot) ==
    LET weekDate == findWeekDate(dayOfWeek)
    IN  \/ weekDate.isPast
        \/ isTimeSlotInPast(weekDate.date, timeSlot)
        \/ checkDuplicateRequest(slot, weekDate)

\* `${dayOfWeek}|${timeSlot}`
slotKey(dayOfWeek, timeSlot) == <<dayOfWeek, timeSlot>>

\* StudentDashboard: the New Request button mounts the form, whose effect
\* takes the week's dates and starts the loads
OpenRequestForm ==
    /\ role = "student"
    /\ ~showRequestForm
    /\ showRequestForm' = TRUE
    /\ weekDates' = getCurrentWeekDates(now)
    /\ loading' = TRUE
    /\ loadRequestsPending' = TRUE
    /\ requests' = <<>>
    /\ selectedSlots' = {}
    /\ error' = NoFormError
    /\ timetable' = {}
    /\ UNCHANGED <<now, attendanceRequests, teacherStatus>>
    /\ UNCHANGED <<timetables, role, selectedCourse, selectedSemester, selectedDay,
                   modalError>>
    /\ UNCHANGED timeVars
    /\ UNCHANGED filter
    /\ UNCHANGED restVars

\* the form's loadTimetable resolves
LoadTimetableResolves ==
    /\ showRequestForm
    /\ loading
    /\ timetable' \in WeeklyViews(
            {StudentSlot(d) : d \in Matching(timetables,
                LAMBDA d : d.course = studentCourse /\ d.semester = studentSemester)})
    /\ error' = NoFormError
    /\ loading' = FALSE
    /\ UNCHANGED <<now, attendanceRequests, teacherStatus, showRequestForm, weekDates,
                   loadRequestsPending, requests, selectedSlots>>
    /\ UNCHANGED <<timetables, role, selectedCourse, selectedSemester, selectedDay,
                   modalError>>
    /\ UNCHANGED timeVars
    /\ UNCHANGED filter
    /\ UNCHANGED restVars

\* the form's loadRequests resolves with the student's requests
LoadRequestsResolves ==
    /\ showRequestForm
    /\ loadRequestsPending
    /\ requests' = attendanceRequests
    /\ loadRequestsPending' = FALSE
    /\ UNCHANGED <<now, attendanceRequests, teacherStatus, showRequestForm, weekDates,
                   loading, selectedSlots, error>>
    /\ UNCHANGED ttVars
    /\ UNCHANGED timeVars
    /\ UNCHANGED filter
    /\ UNCHANGED restVars

\* StudentRequestForm.toggleSlotSelection
toggleSlotSelection(dayOfWeek, timeSlot, slot) ==
    LET weekDate == findWeekDate(dayOfWeek)
        key == slotKey(dayOfWeek, timeSlot)
    IN  IF weekDate.isPast \/ isTimeSlotInPast(weekDate.date, timeSlot)
        THEN /\ error' = FormMessage(ErrPastSlot)
             /\ UNCHANGED selectedSlots
        ELSE IF checkDuplicateRequest(slot, weekDate)
        THEN /\ error' = DuplicateMessage(slot, weekDate)
             /\ UNCHANGED selectedSlots
        ELSE /\ selectedSlots' = IF key \in selectedSlots
                                 THEN selectedSlots \ {key}
                                 ELSE selectedSlots \cup {key}
             /\ UNCHANGED error

\* the student clicks the class slot of the grid
ToggleSlotSelection(slot) ==
    /\ showRequestForm
    /\ ~loading
    /\ slot \in timetable
    /\ toggleSlotSelection(slot.day, slot.time, slot)
    /\ UNCHANGED <<now, attendanceRequests, teacherStatus, showRequestForm, weekDates,
                   loading, loadRequestsPending, requests>>
    /\ UNCHANGED ttVars
    /\ UNCHANGED timeVars
    /\ UNCHANGED filter
    /\ UNCHANGED restVars

\* the timer started with an error of toggleSlotSelection clears it
ClearError ==
    /\ showRequestForm
    /\ error.msg \in {ErrPastSlot, ErrDuplicate}
    /\ error' = NoFormError
    /\ UNCHANGED <<now, attendanceRequests, teacherStatus, showRequestForm, weekDates,
                   loading, loadRequestsPending, requests, selectedSlots>>
    /\ UNCHANGED ttVars
    /\ UNCHANGED timeVars
    /\ UNCHANGED filter
    /\ UNCHANGED restVars

\* the class details submitRequest builds from the selected keys
classDetailsOf(keys) ==
    {LET slot == CHOOSE e \in timetable : slotKey(e.day, e.time) = key
         weekDate == findWeekDate(key[1])
     IN  [subject |-> slot.subject, date |-> weekDate.date.date, time |-> slot.time,
          day |-> slot.day, dayName |-> weekDate.dayName] : key \in keys}

\* a mutant: the new request is stored as already approved
requestData_approved(facultyId, classDetails) ==
    [facultyId |-> facultyId, classDetails |-> classDetails, status |-> "approved",
     processedAt |-> "set", previousStatus |-> "undefined"]

\* the document submitRequest adds: pending, with no processedAt and no
\* previousStatus field
requestData(facultyId, classDetails) ==
    [facultyId |-> facultyId, classDetails |-> classDetails, status |-> "pending",
     processedAt |-> "undefined", previousStatus |-> "undefined"]

\* StudentRequestForm.submitRequest with the faculty and reason fields as
\* filled in.  After the addDoc the dashboard's onRequestSubmitted unmounts
\* the form.
SubmitRequest(selectedFacultyId, reason) ==
    /\ showRequestForm
    /\ ~loading
    /\ IF selectedSlots = {} \/ selectedFacultyId = "" \/ trim(reason) = EmptyText
       THEN /\ error' = FormMessage(IF selectedSlots = {} THEN ErrNoSlot
                                    ELSE IF selectedFacultyId = "" THEN ErrNoFaculty
                                    ELSE ErrNoReason)
            /\ UNCHANGED <<attendanceRequests, showRequestForm, weekDates, loading,
                           loadRequestsPending, requests, selectedSlots, timetable>>
       ELSE /\ Len(attendanceRequests) < MaxRequests
            /\ attendanceRequests' = Append(attendanceRequests,
                  requestData(selectedFacultyId, classDetailsOf(selectedSlots)))
            /\ showRequestForm' = FALSE
            /\ weekDates' = NoWeekDates
            /\ loading' = TRUE
            /\ loadRequestsPending' = FALSE
            /\ requests' = <<>>
            /\ selectedSlots' = {}
            /\ error' = NoFormError
            /\ timetable' = {}
    /\ UNCHANGED <<now, teacherStatus>>
    /\ UNCHANGED <<timetables, role, selectedCourse, selectedSemester, selectedDay,
                   modalError>>
    /\ UNCHANGED timeVars
    /\ UNCHANGED filter
    /\ UNCHANGED restVars

\* FacultyDashboard.processRequest, clicked in the list as loaded with the
\* dashboard's initial filter, 'pending': currentRequest is a pending request
ProcessRequest(requestId, status) ==
    /\ requestId \in 1..Len(attendanceRequests)
    /\ attendanceRequests[requestId].status = "pending"
    /\ LET currentRequest == attendanceRequests[requestId]
       IN  attendanceRequests' =
               [attendanceRequests EXCEPT ![requestId] =
                   [currentRequest EXCEPT !.status = status,
                                          !.processedAt = "set",
                                          !.previousStatus = currentRequest.status]]
    /\ teacherStatus' = status
    /\ UNCHANGED <<now, showRequestForm, weekDates, loading, loadRequestsPending,
                   requests, selectedSlots, error>>
    /\ UNCHANGED ttVars
    /\ UNCHANGED timeVars
    /\ UNCHANGED filter
    /\ UNCHANGED restVars

\* time passes
Tick ==
    /\ \E k \in 1..(Len(Instants) - 1) :
          /\ now = Instants[k]
          /\ now' = Instants[k + 1]
    /\ UNCHANGED <<attendanceRequests, teacherStatus, showRequestForm, weekDates,
                   loading, loadRequestsPending, requests, selectedSlots, error>>
    /\ UNCHANGED ttVars
    /\ UNCHANGED timeVars
    /\ UNCHANGED filter
    /\ UNCHANGED restVars

(***************************************************************************)
(* FacultyDashboard: the request list, its filter, approve, reject, undo   *)
(***************************************************************************)

\* the values of FacultyDashboard.filter (the filter tabs)
Filters == {"all", "pending", "approved", "rejected"}

\* the statuses the Approve and Reject buttons pass to processRequest
Decisions == {"approved", "rejected"}

\* one element of FacultyDashboard.requests: the document's id with the
\* fields of the document as loadRequests read them
Listed(id, document) ==
    [id |-> id, status |-> document.status, processedAt |-> document.processedAt,
     previousStatus |-> document.previousStatus]

\* the result of the query loadRequests sends: the requests addressed to the
\* faculty member, all of them under 'all', else those of the filter's status
queryRequests(f) ==
    { Listed(id, attendanceRequests[id]) :
        id \in { i \in 1..Len(attendanceRequests) :
                   /\ attendanceRequests[i].facultyId = currentFaculty
                   /\ (f = "all" \/ attendanceRequests[i].status = f) } }

\* FacultyDashboard.filteredRequests: the cards the list renders
filteredRequests ==
    IF filter = "all" THEN requests ELSE { r \in requests : r.status = filter }

\* a mutant: Undo is offered for approved requests only
undoOffered_approvedOnly(request) ==
    request.status = "approved" /\ request.processedAt = "set"

\* the condition under which a card renders its Undo button
undoOffered(request) ==
    request.status # "pending" /\ request.processedAt = "set"

\* currentRequest?.previousStatus || 'pending'
restoredStatus(currentRequest) ==
    IF currentRequest.previousStatus \in {"undefined", "null"}
    THEN "pending"
    ELSE currentRequest.previousStatus

\* a filter tab is clicked
SetFilter(f) ==
    /\ role = "faculty"
    /\ filter # f
    /\ filter' = f
    /\ UNCHANGED <<now, attendanceRequests, teacherStatus, showRequestForm,
                   weekDates, loading, loadRequestsPending, requests,
                   selectedSlots, error>>
    /\ UNCHANGED ttVars
    /\ UNCHANGED timeVars
    /\ UNCHANGED restVars

\* a loadRequests call of the dashboard resolves (the calls are started on
\* mount, by a change of the filter and at the end of processRequest and
\* undoAction, none of them awaited)
FacLoadRequests ==
    /\ role = "faculty"
    /\ requests' = queryRequests(filter)
    /\ requests' # requests
    /\ UNCHANGED <<now, attendanceRequests, teacherStatus, showRequestForm,
                   weekDates, loading, loadRequestsPending, selectedSlots, error,
                   filter>>
    /\ UNCHANGED ttVars
    /\ UNCHANGED timeVars
    /\ UNCHANGED restVars

\* FacultyDashboard.processRequest, from the Approve or the Reject button of
\* a rendered card: both buttons are rendered on every card
FacultyProcessRequest(requestId, status) ==
    /\ role = "faculty"
    /\ \E currentRequest \in filteredRequests :
          /\ currentRequest.id = requestId
          /\ attendanceRequests' =
               [attendanceRequests EXCEPT ![requestId] =
                   [@ EXCEPT !.status = status,
                             !.processedAt = "set",
                             !.previousStatus = currentRequest.status]]
    /\ teacherStatus' = status
    /\ UNCHANGED <<now, showRequestForm, weekDates, loading, loadRequestsPending,
                   requests, selectedSlots, error, filter>>
    /\ UNCHANGED ttVars
    /\ UNCHANGED timeVars
    /\ UNCHANGED restVars

\* FacultyDashboard.undoAction, from the Undo button of a rendered card
UndoAction(requestId) ==
    /\ role = "faculty"
    /\ \E currentRequest \in filteredRequests :
          /\ currentRequest.id = requestId
          /\ undoOffered(currentRequest)
          /\ attendanceRequests' =
               [attendanceRequests EXCEPT ![requestId] =
                   [@ EXCEPT !.status = restoredStatus(currentRequest),
                             !.processedAt = "null",
                             !.previousStatus = "null"]]
    /\ teacherStatus' = "pending"
    /\ UNCHANGED <<now, showRequestForm, weekDates, loading, loadRequestsPending,
                   requests, selectedSlots, error, filter>>
    /\ UNCHANGED ttVars
    /\ UNCHANGED timeVars
    /\ UNCHANGED restVars

(***************************************************************************)
(* The time texts the utilities are applied to                             *)
(***************************************************************************)
\* sample times of day, as <<hour, minute>>
SampleTimes ==
    <<<<9, 0>>, <<10, 0>>, <<9, 30>>, <<23, 30>>, <<0, 0>>, <<10, 30>>, <<12, 0>>>>

TimesOfDay == {SampleTimes[i] : i \in 1..NumTimes}

Minutes(t) == t[1] * 60 + t[2]

\* a well-formed input: a bare time, or a range of two times
WellFormed ==
    [kind : {"bare"}, s : TimesOfDay, e : {<<0, 0>>}]
        \cup [kind : {"range"}, s : TimesOfDay, e : TimesOfDay]

\* texts that are candidates for one half of a range, well formed or not
HalfTexts ==
    { <<"0", "9", ":", "0", "0">>,
      <<"1", "0", ":", "0", "0">>,
      <<"9", ":", "3", "0">>,
      <<" ", "0", "9", ":", "0", "0">>,
      <<"1", "0", ":", "0", "0", " ">>,
      <<"2", "3", ":", "5", "9">>,
      <<"2", "4", ":", "0", "0">>,
      <<"0", "9", ":", "6", "0">>,
      <<"9", ":", "5">>,
      <<"0", "9", "0", "0">>,
      <<"0", "0", "9", ":", "0", "0">>,
      <<"a", "9", ":", "0", "0">>,
      <<"0", "9", ":", "0", "0", "a">>,
      <<>> }

SepTexts == { Separator, <<"-">>, <<" ", "-">>, <<" ">> }

TailTexts == { <<>>, Separator \o <<"1", "1", ":", "0", "0">>, Separator \o <<"a">> }

\* an arbitrary input: two halves, something between them, something after
Raw == [kind : {"raw"}, a : HalfTexts, sep : SepTexts, b : HalfTexts, tail : TailTexts]

TextOf(i) ==
    CASE i.kind = "bare" -> timeString(i.s[1], i.s[2])
      [] i.kind = "range" -> timeRangeText(timeString(i.s[1], i.s[2]),
                                           timeString(i.e[1], i.e[2]))
      [] i.kind = "raw" -> i.a \o i.sep \o i.b \o i.tail

\* the interval a well-formed input stands for, in minutes since midnight
StartOf(i) == Minutes(i.s)

EndOf(i) == IF i.kind = "bare" THEN Minutes(i.s) + 60 ELSE Minutes(i.e)

\* no time utility is under test
TimeIdle ==
    /\ in1 = [kind |-> "bare", s |-> SampleTimes[1], e |-> <<0, 0>>]
    /\ in2 = in1
    /\ time1 = TextOf(in1)
    /\ time2 = TextOf(in2)
    /\ op = "none"
    /\ out = FALSE

InitTime ==
    /\ \/ in1 \in WellFormed /\ in2 \in WellFormed
       \/ in1 \in Raw /\ in2 = [kind |-> "bare", s |-> SampleTimes[1], e |-> <<0, 0>>]
    /\ time1 = TextOf(in1)
    /\ time2 = TextOf(in2)
    /\ op = "none"
    /\ out = FALSE
    /\ TimetableIdle
    /\ RequestsIdle
    /\ RestIdle

\* checkTimeOverlap(time1, time2) is evaluated
CheckTimeOverlap ==
    /\ op' = "checkTimeOverlap"
    /\ out' = checkTimeOverlap(time1, time2)
    /\ UNCHANGED <<in1, in2, time1, time2>>
    /\ UNCHANGED <<ttVars, reqVars>>
    /\ UNCHANGED restVars

\* validateTimeRange(time1) is evaluated
ValidateTimeRange ==
    /\ op' = "validateTimeRange"
    /\ out' = validateTimeRange(time1)
    /\ UNCHANGED <<in1, in2, time1, time2>>
    /\ UNCHANGED <<ttVars, reqVars>>
    /\ UNCHANGED restVars

NextTime ==
    \/ CheckTimeOverlap
    \/ ValidateTimeRange

SpecTime == InitTime /\ [][NextTime]_vars

InitTimetable ==
    /\ timetables = EmptyBag
    /\ role \in {"admin", "faculty"}
    /\ selectedCourse = ""
    /\ selectedSemester = ""
    /\ timetable = {}
    /\ selectedDay = NoDay
    /\ modalError = NoModalError
    /\ TimeIdle
    /\ RequestsIdle
    /\ RestIdle

\* the faculty member the admin picks for a class of a course
FacultyFor(course) == IF course = "BCA" THEN "F1" ELSE "F2"

\* what the modal's time, subject and faculty fields are filled with in the
\* admin grid: every pair of time options with the class of the course, and
\* forms with one field left empty
MgrForms ==
    LET f == FacultyFor(selectedCourse)
        t1 == timeString(9, 0)
        t2 == timeString(10, 0)
    IN  {<<a, b, f, SubjectOf(f)>> : a \in getTimeOptions, b \in getTimeOptions}
            \cup {<<EmptyText, t2, f, SubjectOf(f)>>, <<t1, EmptyText, f, SubjectOf(f)>>,
                  <<t1, t2, "", SubjectOf(f)>>, <<t1, t2, f, "">>}

\* what the modal's time, course and semester fields are filled with in the
\* faculty dashboard
FacForms ==
    LET t1 == timeString(9, 0)
        t2 == timeString(10, 0)
    IN  {<<a, b, c, "1">> : a \in getTimeOptions, b \in getTimeOptions, c \in Courses}
            \cup {<<EmptyText, t2, "BCA", "1">>, <<t1, EmptyText, "BCA", "1">>,
                  <<t1, t2, "", "">>, <<t1, t2, "BCA", "">>}

NextTimetable ==
    \/ \E c \in Courses \cup {""} : MgrSelectCourse(c)
    \/ \E s \in Semesters \cup {""} : MgrSelectSemester(s)
    \/ FacLoadTimetable
    \/ \E day \in Days : OpenAddEntryModal(day)
    \/ CloseModal
    \/ \E form \in MgrForms : MgrHandleSubmit(form[1], form[2], form[3], form[4])
    \/ \E form \in FacForms : FacHandleSubmit(form[1], form[2], form[3], form[4])
    \/ \E slot \in timetable : RemoveTimeSlot(slot)
    \/ MgrSaveTimetable
    \/ \E d \in FormEntries : AdminAddTimetableEntry(d)
    \/ \E d \in BagToSet(timetables) : AdminDeleteTimetableEntry(d)

SpecTimetable == InitTimetable /\ [][NextTimetable]_vars

\* the times of the entries a freshly loaded timetable holds: the valid
\* ranges of the time options, and a bare time
EntryTimes ==
    {timeRangeText(timeString(p[1] \div 2, (p[1] % 2) * 30),
                   timeString(p[2] \div 2, (p[2] % 2) * 30)) :
        p \in {q \in OptionSlots \X OptionSlots : q[1] < q[2]}}
        \cup {timeString(9, 30)}

\* the documents an editor of the given role can have loaded
LoadedDocs(r) ==
    {TimetableDoc("BCA", "1", day, t, SubjectOf(f), f) :
        day \in Days, t \in EntryTimes,
        f \in IF r = "admin" THEN {FacultyFor("BCA")} ELSE {currentFaculty}}

\* an editor that has just loaded its timetable, the modal not yet open
InitModal ==
    /\ role \in {"admin", "faculty"}
    /\ \E docs \in SUBSET LoadedDocs(role) :
          /\ Cardinality(docs) <= MaxDocs
          /\ \A d1 \in docs, d2 \in docs :
                (d1.day = d2.day /\ d1.time = d2.time) => d1 = d2
          /\ timetables = SetToBag(docs)
          /\ timetable = {IF role = "admin" THEN ManagerSlot(d) ELSE FacultySlot(d) :
                             d \in docs}
    /\ selectedCourse = IF role = "admin" THEN "BCA" ELSE ""
    /\ selectedSemester = IF role = "admin" THEN "1" ELSE ""
    /\ selectedDay = NoDay
    /\ modalError = NoModalError
    /\ TimeIdle
    /\ RequestsIdle
    /\ RestIdle

NextModal ==
    \/ \E day \in Days : OpenAddEntryModal(day)
    \/ CloseModal
    \/ \E form \in MgrForms : MgrHandleSubmit(form[1], form[2], form[3], form[4])
    \/ \E form \in FacForms : FacHandleSubmit(form[1], form[2], form[3], form[4])

SpecModal == InitModal /\ [][NextModal]_vars

\* the admin's editor with the timetable of a course and semester loaded
InitSave ==
    /\ InitModal
    /\ role = "admin"

NextSave ==
    \/ \E day \in Days : OpenAddEntryModal(day)
    \/ CloseModal
    \/ \E form \in MgrForms : MgrHandleSubmit(form[1], form[2], form[3], form[4])
    \/ \E slot \in timetable : RemoveTimeSlot(slot)
    \/ MgrSaveTimetable
    \/ \E stage \in SaveStages : SaveTimetableFails(stage)

SpecSave == InitSave /\ [][NextSave]_vars

\* how many data lines a sample CSV file has at most
MaxRows == 2

\* one cell of a sample file: the value it stands for and the text written
Cell(core, text) == [core |-> core, text |-> text]

Plain(core) == Cell(core, core)

\* sample header lines: the expected one, one in other case with blanks, one
\* without facultyName, one in another order, one with an additional column
CsvHeaders ==
    {<<[name |-> <<"c", "o", "u", "r", "s", "e">>, text |-> <<"c", "o", "u", "r", "s", "e">>],
      [name |-> <<"s", "e", "m", "e", "s", "t", "e", "r">>, text |-> <<"s", "e", "m", "e", "s", "t", "e", "r">>],
      [name |-> <<"d", "a", "y">>, text |-> <<"d", "a", "y">>],
      [name |-> <<"t", "i", "m", "e">>, text |-> <<"t", "i", "m", "e">>],
      [name |-> <<"s", "u", "b", "j", "e", "c", "t">>, text |-> <<"s", "u", "b", "j", "e", "c", "t">>],
      [name |-> <<"f", "a", "c", "u", "l", "t", "y", "i", "d">>, text |-> <<"f", "a", "c", "u", "l", "t", "y", "i", "d">>],
      [name |-> <<"f", "a", "c", "u", "l", "t", "y", "n", "a", "m", "e">>, text |-> <<"f", "a", "c", "u", "l", "t", "y", "n", "a", "m", "e">>]>>,
     <<[name |-> <<"c", "o", "u", "r", "s", "e">>, text |-> <<"C", "o", "u", "r", "s", "e">>],
      [name |-> <<"s", "e", "m", "e", "s", "t", "e", "r">>, text |-> <<" ", "S", "e", "m", "e", "s", "t", "e", "r", " ">>],
      [name |-> <<"d", "a", "y">>, text |-> <<"D", "A", "Y">>],
      [name |-> <<"t", "i", "m", "e">>, text |-> <<"t", "i", "m", "e">>],
      [name |-> <<"s", "u", "b", "j", "e", "c", "t">>, text |-> <<"S", "u", "b", "j", "e", "c", "t">>],
      [name |-> <<"f", "a", "c", "u", "l", "t", "y", "i", "d">>, text |-> <<"F", "a", "c", "u", "l", "t", "y", "I", "d">>],
      [name |-> <<"f", "a", "c", "u", "l", "t", "y", "n", "a", "m", "e">>, text |-> <<"f", "a", "c", "u", "l", "t", "y", "N", "a", "m", "e">>]>>,
     <<[name |-> <<"c", "o", "u", "r", "s", "e">>, text |-> <<"c", "o", "u", "r", "s", "e">>],
      [name |-> <<"s", "e", "m", "e", "s", "t", "e", "r">>, text |-> <<"s", "e", "m", "e", "s", "t", "e", "r">>],
      [name |-> <<"d", "a", "y">>, text |-> <<"d", "a", "y">>],
      [name |-> <<"t", "i", "m", "e">>, text |-> <<"t", "i", "m", "e">>],
      [name |-> <<"s", "u", "b", "j", "e", "c", "t">>, text |-> <<"s", "u", "b", "j", "e", "c", "t">>],
      [name |-> <<"f", "a", "c", "u", "l", "t", "y", "i", "d">>, text |-> <<"f", "a", "c", "u", "l", "t", "y", "i", "d">>]>>,
     <<[name |-> <<"s", "u", "b", "j", "e", "c", "t">>, text |-> <<"s", "u", "b", "j", "e", "c", "t">>],
      [name |-> <<"c", "o", "u", "r", "s", "e">>, text |-> <<"c", "o", "u", "r", "s", "e">>],
      [name |-> <<"f", "a", "c", "u", "l", "t", "y", "n", "a", "m", "e">>, text |-> <<"f", "a", "c", "u", "l", "t", "y", "n", "a", "m", "e">>],
      [name |-> <<"s", "e", "m", "e", "s", "t", "e", "r">>, text |-> <<"s", "e", "m", "e", "s", "t", "e", "r">>],
      [name |-> <<"t", "i", "m", "e">>, text |-> <<"t", "i", "m", "e">>],
      [name |-> <<"d", "a", "y">>, text |-> <<"d", "a", "y">>],
      [name |-> <<"f", "a", "c", "u", "l", "t", "y", "i", "d">>, text |-> <<"f", "a", "c", "u", "l", "t", "y", "i", "d">>]>>,
     <<[name |-> <<"c", "o", "u", "r", "s", "e">>, text |-> <<"c", "o", "u", "r", "s", "e">>],
      [name |-> <<"r", "o", "o", "m">>, text |-> <<"r", "o", "o", "m">>],
      [name |-> <<"s", "e", "m", "e", "s", "t", "e", "r">>, text |-> <<"s", "e", "m", "e", "s", "t", "e", "r">>],
      [name |-> <<"d", "a", "y">>, text |-> <<"d", "a", "y">>],
      [name |-> <<"t", "i", "m", "e">>, text |-> <<"t", "i", "m", "e">>],
      [name |-> <<"s", "u", "b", "j", "e", "c", "t">>, text |-> <<"s", "u", "b", "j", "e", "c", "t">>],
      [name |-> <<"f", "a", "c", "u", "l", "t", "y", "i", "d">>, text |-> <<"f", "a", "c", "u", "l", "t", "y", "i", "d">>],
      [name |-> <<"f", "a", "c", "u", "l", "t", "y", "n", "a", "m", "e">>, text |-> <<"f", "a", "c", "u", "l", "t", "y", "n", "a", "m", "e">>]>>}

\* a sample data line: its cells by column, and whether it is written with
\* all its cells, without the last, with one more, or as a blank line
CsvRow(course, day, subject, shape) ==
    [course |-> course, semester |-> Plain(<<"1">>), day |-> Plain(day),
     time |-> Plain(timeString(9, 0)), subject |-> subject,
     facultyid |-> Plain(<<"F", "1">>), facultyname |-> Cell(<<"A">>, <<"A", " ">>),
     shape |-> shape]

CsvRows ==
    {CsvRow(Plain(<<"B", "C", "A">>), <<"1">>, Plain(<<"M">>), "full"),
     CsvRow(Cell(<<"B", "C", "A">>, <<" ", "B", "C", "A", " ">>), <<"2">>, Plain(<<"M">>), "full"),
     CsvRow(Plain(<<>>), <<"1">>, Plain(<<"M">>), "full"),
     CsvRow(Plain(<<"B", "C", "A">>), <<"1">>, Cell(<<>>, <<" ">>), "full"),
     CsvRow(Plain(<<"B", "C", "A">>), <<"1">>, Plain(<<"M">>), "short"),
     CsvRow(Plain(<<"B", "C", "A">>), <<"1">>, Plain(<<"M">>), "long"),
     CsvRow(Plain(<<"B", "C", "A">>), <<"1">>, Plain(<<"M">>), "blank")}

RECURSIVE SeqsUpTo(_, _)
\* the sequences over S of length at most n
SeqsUpTo(S, n) ==
    IF n = 0 THEN {<<>>}
    ELSE LET shorter == SeqsUpTo(S, n - 1)
         IN  shorter \cup {Append(q, x) : q \in shorter, x \in S}

\* the sample files
CsvFiles ==
    [header : CsvHeaders, rows : SeqsUpTo(CsvRows, MaxRows), eol : {<<"\n">>, <<"\r", "\n">>}]

RECURSIVE Join(_, _)
\* the texts of a sequence, with sep between them
Join(texts, sep) ==
    IF Len(texts) = 0 THEN <<>>
    ELSE IF Len(texts) = 1 THEN texts[1]
    ELSE texts[1] \o sep \o Join(Tail(texts), sep)

\* the cell of a row under a column of the header
CellUnder(row, column) ==
    IF column.name = required[1] THEN row.course
    ELSE IF column.name = required[2] THEN row.semester
    ELSE IF column.name = required[3] THEN row.day
    ELSE IF column.name = required[4] THEN row.time
    ELSE IF column.name = required[5] THEN row.subject
    ELSE IF column.name = required[6] THEN row.facultyid
    ELSE IF column.name = required[7] THEN row.facultyname
    ELSE Plain(<<"x">>)

\* the line a row is written as under a header
RowLine(header, row) ==
    LET cells == [i \in 1..Len(header) |-> CellUnder(row, header[i]).text]
    IN  IF row.shape = "blank" THEN <<" ", " ">>
        ELSE IF row.shape = "short" THEN Join(SubSeq(cells, 1, Len(cells) - 1), <<",">>)
        ELSE IF row.shape = "long" THEN Join(Append(cells, <<"x">>), <<",">>)
        ELSE Join(cells, <<",">>)

\* the text of a sample file; a file with "\r\n" also ends with it
CsvText(file) ==
    LET headerLine == Join([i \in 1..Len(file.header) |-> file.header[i].text], <<",">>)
        rowLines == [i \in 1..Len(file.rows) |-> RowLine(file.header, file.rows[i])]
        body == Join(<<headerLine>> \o rowLines, file.eol)
    IN  IF Len(file.eol) = 2 THEN body \o file.eol ELSE body

\* the admin dashboard with a CSV file chosen in the uploader
InitCsv ==
    /\ in1 \in CsvFiles
    /\ in2 = in1
    /\ time1 = CsvText(in1)
    /\ time2 = time1
    /\ op = "none"
    /\ out = NoUpload
    /\ timetables = EmptyBag
    /\ role = "admin"
    /\ selectedCourse = ""
    /\ selectedSemester = ""
    /\ timetable = {}
    /\ selectedDay = NoDay
    /\ modalError = NoModalError
    /\ RequestsIdle
    /\ RestIdle

\* the uploader is opened again and the file is chosen once more
ReopenCsvUploader ==
    /\ role = "admin"
    /\ op = "handleCsvUpload"
    /\ BagCardinality(timetables) < MaxDocs
    /\ op' = "none"
    /\ out' = NoUpload
    /\ UNCHANGED <<in1, in2, time1, time2>>
    /\ UNCHANGED <<ttVars, reqVars>>
    /\ UNCHANGED restVars

NextCsv ==
    \/ HandleCsvUpload(time1)
    \/ ReopenCsvUploader

SpecCsv == InitCsv /\ [][NextCsv]_vars

\* the admin dashboard just mounted, over an empty courses collection
InitCourses ==
    /\ timetables = EmptyBag
    /\ role = "admin"
    /\ selectedCourse = ""
    /\ selectedSemester = ""
    /\ timetable = {}
    /\ selectedDay = NoDay
    /\ modalError = NoModalError
    /\ RequestsIdle
    /\ TimeIdle
    /\ coursesCollection = <<>>
    /\ courses = {}
    /\ AsyncIdle

NextCourses ==
    \/ LoadCourses
    \/ \E name \in CourseNames : AddCourse(name)
    \/ \E id \in 1..MaxCourses : DeleteCourse(id)
    \/ ClearCourseError

SpecCourses == InitCourses /\ [][NextCourses]_vars

\* the student's dashboard with the classes in the store and no request yet
InitRequests ==
    /\ timetables = SetToBag(ClassDocs)
    /\ role = "student"
    /\ selectedCourse = ""
    /\ selectedSemester = ""
    /\ timetable = {}
    /\ selectedDay = NoDay
    /\ modalError = NoModalError
    /\ RequestsIdle
    /\ TimeIdle
    /\ RestIdle

\* what the form's faculty and reason fields are filled with at submission
SubmitForms ==
    {<<"F1", <<"i", "l", "l">>>>, <<"F1", <<" ">>>>}

\* the hours and the sample minutes of the times that are formatted
HoursOfDay == 0..23

LabelMinutes == {0, 5, 30, 59}

\* the times handed to formatTimeSlot: every hour as a single time, every
\* pair of half hours as a range
LabelInputs ==
    [kind : {"bare"}, s : HoursOfDay \X LabelMinutes, e : {<<0, 0>>}]
        \cup [kind : {"range"}, s : HoursOfDay \X {30}, e : HoursOfDay \X {30}]

InitFormat ==
    /\ in1 \in LabelInputs
    /\ in2 = in1
    /\ time1 = TextOf(in1)
    /\ time2 = time1
    /\ op = "none"
    /\ out = FALSE
    /\ TimetableIdle
    /\ RequestsIdle
    /\ RestIdle

\* formatTimeSlot(time1) is evaluated
FormatTimeSlot ==
    /\ op' = "formatTimeSlot"
    /\ out' = formatTimeSlot(time1)
    /\ UNCHANGED <<in1, in2, time1, time2>>
    /\ UNCHANGED <<ttVars, reqVars>>
    /\ UNCHANGED restVars

\* formatSingleTime(time1) is evaluated
FormatSingleTime ==
    /\ in1.kind = "bare"
    /\ op' = "formatSingleTime"
    /\ out' = formatSingleTime(time1)
    /\ UNCHANGED <<in1, in2, time1, time2>>
    /\ UNCHANGED <<ttVars, reqVars>>
    /\ UNCHANGED restVars

NextFormat ==
    \/ FormatTimeSlot
    \/ FormatSingleTime

SpecFormat == InitFormat /\ [][NextFormat]_vars

\* the forms submitted where the writes can fail: classes from 09:00 on, of
\* the course BCA in the faculty member's modal
MgrFormsFrom9 == {f \in MgrForms : f[1] = timeString(9, 0)}

FacFormsFrom9 == {f \in FacForms : f[1] = timeString(9, 0) /\ f[3] = "BCA"}

\* the modal's form as an editor of the given role submits it
EditorForms ==
    IF role = "admin"
    THEN {[startTime |-> f[1], endTime |-> f[2], facultyId |-> f[3], subject |-> f[4],
           course |-> "", semester |-> ""] : f \in MgrFormsFrom9}
    ELSE {[startTime |-> f[1], endTime |-> f[2], facultyId |-> currentFaculty,
           subject |-> SubjectOf(currentFaculty), course |-> f[3],
           semester |-> f[4]] : f \in FacFormsFrom9}

\* an editor with its timetable loaded, whose writes to the store can fail
NextEditor ==
    \/ \E day \in Days : OpenAddEntryModal(day)
    \/ CloseModal
    \/ \E form \in MgrFormsFrom9 : MgrHandleSubmit(form[1], form[2], form[3], form[4])
    \/ \E form \in FacFormsFrom9 : FacHandleSubmit(form[1], form[2], form[3], form[4])
    \/ \E form \in EditorForms : AddTimetableEntryFails(form)
    \/ \E slot \in timetable : RemoveTimeSlotFails(slot)

\* the editor has loaded at most one entry
InitEditor ==
    /\ InitModal
    /\ BagCardinality(timetables) <= 1

SpecEditor == InitEditor /\ [][NextEditor]_vars

\* what the request form's faculty and reason fields are filled with: a
\* complete form, a blank reason, no faculty member
RequestForms ==
    SubmitForms \cup {<<"", <<"i", "l", "l">>>>}

\* the forms of the application: the entry modal of an editor that has loaded
\* its timetable, or the student's request form
InitForms == InitModal \/ InitRequests

NextForms ==
    \/ \E day \in Days : OpenAddEntryModal(day)
    \/ CloseModal
    \/ \E form \in MgrForms : MgrHandleSubmit(form[1], form[2], form[3], form[4])
    \/ \E form \in FacForms : FacHandleSubmit(form[1], form[2], form[3], form[4])
    \/ OpenRequestForm
    \/ LoadTimetableResolves
    \/ LoadRequestsResolves
    \/ \E slot \in timetable : ToggleSlotSelection(slot)
    \/ \E form \in RequestForms : SubmitRequest(form[1], form[2])

SpecForms == InitForms /\ [][NextForms]_vars

NextRequests ==
    \/ OpenRequestForm
    \/ LoadTimetableResolves
    \/ LoadRequestsResolves
    \/ \E slot \in timetable : ToggleSlotSelection(slot)
    \/ ClearError
    \/ \E form \in SubmitForms : SubmitRequest(form[1], form[2])
    \/ \E id \in 1..MaxRequests, status \in {"approved", "rejected"} :
          ProcessRequest(id, status)
    \/ Tick

SpecRequests == InitRequests /\ [][NextRequests]_vars

\* the dates and times of day the clock is sampled at: day 0 is a Sunday
SampleDates == {0, 1, 3, 6, 8}

SampleMinutes == {0, 570, 1439}

\* the week utilities are applied to a time text at some instant
InitWeek ==
    /\ now \in {Date(d, m) : d \in SampleDates, m \in SampleMinutes}
    /\ in1 \in WellFormed
    /\ in2 = [kind |-> "bare", s |-> SampleTimes[1], e |-> <<0, 0>>]
    /\ time1 = TextOf(in1)
    /\ time2 = TextOf(in2)
    /\ op = "none"
    /\ out = FALSE
    /\ attendanceRequests = <<>>
    /\ teacherStatus = "none"
    /\ filter = "pending"
    /\ FormClosed
    /\ TimetableIdle
    /\ RestIdle

\* getCurrentWeekDates() is evaluated
GetCurrentWeekDates ==
    /\ weekDates' = getCurrentWeekDates(now)
    /\ op' = "getCurrentWeekDates"
    /\ out' = FALSE
    /\ UNCHANGED <<in1, in2, time1, time2, now, attendanceRequests, teacherStatus,
                   showRequestForm, loading, loadRequestsPending, requests,
                   selectedSlots, error>>
    /\ UNCHANGED ttVars
    /\ UNCHANGED filter
    /\ UNCHANGED restVars

\* isTimeSlotInPast(weekDate.date, time1) is evaluated for a day of the week
\* dates taken earlier
IsTimeSlotInPast(i) ==
    /\ weekDates # NoWeekDates
    /\ op' = "isTimeSlotInPast"
    /\ out' = [dayOfWeek |-> i, result |-> isTimeSlotInPast(weekDates[i].date, time1)]
    /\ UNCHANGED <<in1, in2, time1, time2>>
    /\ UNCHANGED <<ttVars, reqVars>>
    /\ UNCHANGED restVars

\* time passes; what was evaluated before is no longer current
ClockAdvances ==
    /\ \E d \in SampleDates, m \in SampleMinutes :
          /\ DateLt(now, Date(d, m))
          /\ now' = Date(d, m)
    /\ op' = "none"
    /\ out' = FALSE
    /\ UNCHANGED <<in1, in2, time1, time2, attendanceRequests, teacherStatus,
                   showRequestForm, weekDates, loading, loadRequestsPending,
                   requests, selectedSlots, error>>
    /\ UNCHANGED ttVars
    /\ UNCHANGED filter
    /\ UNCHANGED restVars

NextWeek ==
    \/ GetCurrentWeekDates
    \/ \E i \in WeekDays : IsTimeSlotInPast(i)
    \/ ClockAdvances

SpecWeek == InitWeek /\ [][NextWeek]_vars

\* the number of requests the faculty member's dashboard works on
MaxListed == 2

\* a request as submitRequest stored it, for the Monday class of the sample
\* timetable
SubmittedRequest ==
    requestData(currentFaculty,
                {[subject |-> "Algorithms", date |-> Instants[1].date,
                  time |-> timeRangeText(timeString(9, 0), timeString(10, 0)),
                  day |-> "1", dayName |-> dayNames[2]]})

\* the dashboard of the faculty member, just mounted over the requests the
\* students have submitted to it: nothing is listed until loadRequests resolves
InitFaculty ==
    /\ timetables = SetToBag(ClassDocs)
    /\ role = "faculty"
    /\ selectedCourse = ""
    /\ selectedSemester = ""
    /\ timetable = {}
    /\ selectedDay = NoDay
    /\ modalError = NoModalError
    /\ now = Instants[1]
    /\ \E n \in 1..MaxListed :
          attendanceRequests = [i \in 1..n |-> SubmittedRequest]
    /\ teacherStatus = "none"
    /\ filter = "pending"
    /\ requests = {}
    /\ showRequestForm = FALSE
    /\ weekDates = NoWeekDates
    /\ loading = TRUE
    /\ loadRequestsPending = FALSE
    /\ selectedSlots = {}
    /\ error = NoFormError
    /\ TimeIdle
    /\ RestIdle

NextFaculty ==
    \/ \E f \in Filters : SetFilter(f)
    \/ FacLoadRequests
    \/ \E id \in 1..MaxListed, status \in Decisions : FacultyProcessRequest(id, status)
    \/ \E id \in 1..MaxListed : UndoAction(id)

SpecFaculty == InitFaculty /\ [][NextFaculty]_vars


(***************************************************************************)
(* TimetableManager: the calls to the store, step by step                  *)
(*                                                                         *)
(* persistSingleEntry and deleteSingleEntry are started with "void" and    *)
(* saveTimetable is an async click handler, so the awaits of several calls *)
(* interleave.  A running call is a record with the place it has reached   *)
(* (pc), the course and semester it captured when it started, the (day,    *)
(* time) it is about, the slots it still has to add and the ids of the     *)
(* documents its query found and it still has to delete.  A stored         *)
(* document carries the id the store gave it.                              *)
(***************************************************************************)
\* how many documents the store has been given when the last call starts
MaxDocIds == 2

\* how many calls run at the same time
MaxCalls == 2

\* a document as the store holds it, under its id
StoredDoc(d, id) ==
    [course |-> d.course, semester |-> d.semester, day |-> d.day, time |-> d.time,
     subject |-> d.subject, facultyId |-> d.facultyId, id |-> id]

\* the state of a call right after it has been started
StartedCall(kind, dayOfWeek, timeSlot, slots) ==
    [kind |-> kind, pc |-> "query", course |-> selectedCourse,
     semester |-> selectedSemester, day |-> dayOfWeek, time |-> timeSlot,
     slots |-> slots, found |-> {}]

\* TimetableManager.saving: true from the start of saveTimetable to its end
saving == \E c \in calls : c.kind = "saveTimetable"

\* the where clauses of the query of a call
QueryMatches(c, d) ==
    /\ d.course = c.course
    /\ d.semester = c.semester
    /\ c.kind # "saveTimetable" => (d.day = c.day /\ d.time = c.time)

\* what is left of a call after one of its awaits, or nothing when it is over:
\* the deleteDocs come first, then the addDocs
Continue(c) ==
    IF c.found # {} THEN {[c EXCEPT !.pc = "delete"]}
    ELSE IF c.kind # "deleteSingleEntry" /\ c.slots # {}
         THEN {[c EXCEPT !.pc = "add"]}
         ELSE {}

\* the admin submits the modal's form: addTimetableEntry puts the slot in the
\* timetable and starts persistSingleEntry without waiting for it
GridHandleSubmit(startTime, endTime, facultyId, subject) ==
    /\ role = "admin"
    /\ selectedDay # NoDay
    /\ \E r \in handleSubmit([startTime |-> startTime, endTime |-> endTime,
                              subject |-> subject, facultyId |-> facultyId,
                              course |-> "", semester |-> ""],
                             ExistingEntries(selectedDay), FALSE) :
          IF r.saved
          THEN LET slot == [day |-> selectedDay, time |-> r.entry.time,
                            subject |-> r.entry.subject,
                            facultyId |-> r.entry.facultyId,
                            course |-> "", semester |-> ""]
               IN  /\ Cardinality(timetable) < MaxDocs
                   /\ Cardinality(calls) < MaxCalls
                   /\ nextDocId <= MaxDocIds
                   /\ timetable' = PutSlot(timetable, slot)
                   /\ calls' = calls \cup
                         {StartedCall("persistSingleEntry", selectedDay, slot.time,
                                      {slot})}
                   /\ selectedDay' = NoDay
                   /\ modalError' = NoModalError
          ELSE /\ modalError' = r.error
               /\ UNCHANGED <<calls, timetable, selectedDay>>
    /\ UNCHANGED <<timetables, role, selectedCourse, selectedSemester>>
    /\ UNCHANGED <<timeVars, reqVars>>
    /\ UNCHANGED <<coursesCollection, courses, nextDocId, pendingLoads,
                   managerLoading, processing, statusCalls,
                   statusActions>>

\* removeTimeSlot in the admin grid: the slot leaves the timetable and
\* deleteSingleEntry is started without waiting for it
GridRemoveTimeSlot(slot) ==
    /\ role = "admin"
    /\ selectedDay = NoDay
    /\ selectedCourse # "" /\ selectedSemester # ""
    /\ slot \in timetable
    /\ Cardinality(calls) < MaxCalls
    /\ timetable' = timetable \ {slot}
    /\ calls' = calls \cup
          {StartedCall("deleteSingleEntry", slot.day, slot.time, {})}
    /\ UNCHANGED <<timetables, role, selectedCourse, selectedSemester, selectedDay,
                   modalError>>
    /\ UNCHANGED <<timeVars, reqVars>>
    /\ UNCHANGED <<coursesCollection, courses, nextDocId, pendingLoads,
                   managerLoading, processing, statusCalls,
                   statusActions>>

\* the Save Timetable button, disabled while saving: saveTimetable starts
\* with the timetable of the render it was clicked in
GridSaveTimetable ==
    /\ role = "admin"
    /\ selectedDay = NoDay
    /\ selectedCourse # "" /\ selectedSemester # ""
    /\ ~saving
    /\ Cardinality(calls) < MaxCalls
    /\ nextDocId <= MaxDocIds
    /\ calls' = calls \cup
          {StartedCall("saveTimetable", "", EmptyText,
                       {x \in timetable : x.subject # "" /\ x.facultyId # ""})}
    /\ error' = ManagerError("")
    /\ UNCHANGED ttVars
    /\ UNCHANGED <<now, attendanceRequests, teacherStatus, showRequestForm,
                   weekDates, loading, loadRequestsPending, requests,
                   selectedSlots, filter>>
    /\ UNCHANGED timeVars
    /\ UNCHANGED <<coursesCollection, courses, nextDocId, pendingLoads,
                   managerLoading, processing, statusCalls,
                   statusActions>>

\* await getDocs(existingQuery) of a call resolves with the documents that
\* match at that moment
CallQueries(c) ==
    /\ c \in calls
    /\ c.pc = "query"
    /\ LET found == {d.id : d \in {x \in DOMAIN timetables : QueryMatches(c, x)}}
       IN  calls' = (calls \ {c}) \cup Continue([c EXCEPT !.found = found])
    /\ UNCHANGED ttVars
    /\ UNCHANGED <<timeVars, reqVars>>
    /\ UNCHANGED <<coursesCollection, courses, nextDocId, pendingLoads,
                   managerLoading, processing, statusCalls,
                   statusActions>>

\* await deleteDoc of the next document the query found; deleting a document
\* that is no longer there changes nothing
CallDeletes(c, id) ==
    /\ c \in calls
    /\ c.pc = "delete"
    /\ id \in c.found
    /\ timetables' = DeleteAll(timetables, {d \in DOMAIN timetables : d.id = id})
    /\ calls' = (calls \ {c}) \cup Continue([c EXCEPT !.found = c.found \ {id}])
    /\ UNCHANGED editorVars
    /\ UNCHANGED <<timeVars, reqVars>>
    /\ UNCHANGED <<coursesCollection, courses, nextDocId, pendingLoads,
                   managerLoading, processing, statusCalls,
                   statusActions>>

\* await addDoc of the next entry, day by day
CallAdds(c, slot) ==
    /\ c \in calls
    /\ c.pc = "add"
    /\ slot \in c.slots
    /\ \A e \in c.slots : dayKeyIndex(slot.day) <= dayKeyIndex(e.day)
    /\ timetables' = AddDoc(timetables,
          StoredDoc(TimetableDoc(c.course, c.semester, slot.day, slot.time,
                                 slot.subject, slot.facultyId), nextDocId))
    /\ nextDocId' = nextDocId + 1
    /\ calls' = (calls \ {c}) \cup Continue([c EXCEPT !.slots = c.slots \ {slot}])
    /\ UNCHANGED editorVars
    /\ UNCHANGED <<timeVars, reqVars>>
    /\ UNCHANGED <<coursesCollection, courses, pendingLoads, managerLoading,
                   processing, statusCalls,
                   statusActions>>

\* the admin grid with at most one class loaded and no call running
InitGrid ==
    /\ role = "admin"
    /\ selectedCourse = "BCA"
    /\ selectedSemester = "1"
    /\ \E docs \in SUBSET LoadedDocs("admin") :
          /\ Cardinality(docs) <= 1
          /\ timetables = SetToBag({StoredDoc(d, 1) : d \in docs})
          /\ timetable = {ManagerSlot(d) : d \in docs}
          /\ nextDocId = 1 + Cardinality(docs)
    /\ selectedDay = NoDay
    /\ modalError = NoModalError
    /\ TimeIdle
    /\ RequestsIdle
    /\ coursesCollection = <<>>
    /\ courses = {}
    /\ calls = {}
    /\ pendingLoads = {}
    /\ managerLoading = FALSE
    /\ processing = NoRequest
    /\ statusCalls = {}
    /\ statusActions = 0

NextGrid ==
    \/ \E day \in Days : OpenAddEntryModal(day)
    \/ \E form \in MgrFormsFrom9 :
          GridHandleSubmit(form[1], form[2], form[3], form[4])
    \/ \E slot \in timetable : GridRemoveTimeSlot(slot)
    \/ GridSaveTimetable
    \/ \E c \in calls : CallQueries(c)
    \/ \E c \in calls : \E id \in c.found : CallDeletes(c, id)
    \/ \E c \in calls : \E slot \in c.slots : CallAdds(c, slot)

SpecGrid == InitGrid /\ [][NextGrid]_vars

(***************************************************************************)
(* TimetableManager: the selectors and loadTimetable                       *)
(*                                                                         *)
(* loadTimetable is started by the effect on the selection and resolves    *)
(* later.  While loading is true the component renders the spinner alone.  *)
(***************************************************************************)
ErrLoadFailed == "Failed to load timetable"

\* a mutant: the selectors stay on the page while a timetable is loading
selectorsShown_whileLoading == TRUE

\* the selectors and the grid are rendered unless loading is true
selectorsShown == ~managerLoading

\* the course select's onChange; the effect starts no load, the semester
\* being empty
GridSelectCourse(c) ==
    /\ role = "admin"
    /\ selectorsShown
    /\ selectedDay = NoDay
    /\ c # selectedCourse
    /\ selectedCourse' = c
    /\ selectedSemester' = ""
    /\ timetable' = {}
    /\ UNCHANGED <<timetables, role, selectedDay, modalError>>
    /\ UNCHANGED <<timeVars, reqVars>>
    /\ UNCHANGED restVars

\* the semester select's onChange; the effect starts loadTimetable when
\* course and semester are both set
GridSelectSemester(s) ==
    /\ role = "admin"
    /\ selectorsShown
    /\ selectedDay = NoDay
    /\ selectedCourse # ""
    /\ s # selectedSemester
    /\ selectedSemester' = s
    /\ IF s # ""
       THEN /\ managerLoading' = TRUE
            /\ pendingLoads' = pendingLoads \cup
                  {[course |-> selectedCourse, semester |-> s]}
       ELSE UNCHANGED <<managerLoading, pendingLoads>>
    /\ UNCHANGED <<timetables, role, selectedCourse, timetable, selectedDay,
                   modalError>>
    /\ UNCHANGED <<timeVars, reqVars>>
    /\ UNCHANGED <<coursesCollection, courses, calls, nextDocId, processing,
                   statusCalls, statusActions>>

\* await getDocs(q) of a loadTimetable resolves: the timetable is replaced by
\* the documents of the course and semester the call was started for
MgrLoadTimetableResolves(l) ==
    /\ role = "admin"
    /\ l \in pendingLoads
    /\ timetable' \in WeeklyViews(
            {ManagerSlot(d) : d \in Matching(timetables,
                LAMBDA d : d.course = l.course /\ d.semester = l.semester)})
    /\ managerLoading' = FALSE
    /\ pendingLoads' = pendingLoads \ {l}
    /\ UNCHANGED <<timetables, role, selectedCourse, selectedSemester, selectedDay,
                   modalError>>
    /\ UNCHANGED <<timeVars, reqVars>>
    /\ UNCHANGED <<coursesCollection, courses, calls, nextDocId, processing,
                   statusCalls, statusActions>>

\* await getDocs(q) of a loadTimetable rejects: the timetable stays
MgrLoadTimetableFails(l) ==
    /\ role = "admin"
    /\ l \in pendingLoads
    /\ error' = ManagerError(ErrLoadFailed)
    /\ managerLoading' = FALSE
    /\ pendingLoads' = pendingLoads \ {l}
    /\ UNCHANGED ttVars
    /\ UNCHANGED <<now, attendanceRequests, teacherStatus, showRequestForm,
                   weekDates, loading, loadRequestsPending, requests,
                   selectedSlots, filter>>
    /\ UNCHANGED timeVars
    /\ UNCHANGED <<coursesCollection, courses, calls, nextDocId, processing,
                   statusCalls, statusActions>>

\* the classes that can be stored when the admin grid is opened
SelectableDocs ==
    {TimetableDoc(c, s, day, timeRangeText(timeString(9, 0), timeString(10, 0)),
                  SubjectOf(FacultyFor(c)), FacultyFor(c)) :
        c \in Courses, s \in Semesters, day \in Days}

\* the admin grid as it is opened: nothing selected, nothing loaded
InitSelect ==
    /\ role = "admin"
    /\ selectedCourse = ""
    /\ selectedSemester = ""
    /\ timetable = {}
    /\ \E docs \in SUBSET SelectableDocs :
          /\ Cardinality(docs) <= MaxDocs
          /\ timetables = SetToBag(docs)
    /\ selectedDay = NoDay
    /\ modalError = NoModalError
    /\ TimeIdle
    /\ RequestsIdle
    /\ RestIdle

NextSelect ==
    \/ \E c \in Courses \cup {""} : GridSelectCourse(c)
    \/ \E s \in Semesters \cup {""} : GridSelectSemester(s)
    \/ \E l \in pendingLoads : MgrLoadTimetableResolves(l)
    \/ \E l \in pendingLoads : MgrLoadTimetableFails(l)
    \/ selectorsShown /\ \E day \in Days : OpenAddEntryModal(day)
    \/ CloseModal
    \/ \E form \in MgrFormsFrom9 :
          MgrHandleSubmit(form[1], form[2], form[3], form[4])
    \/ selectorsShown /\ \E slot \in timetable : RemoveTimeSlot(slot)
    \/ selectorsShown /\ MgrSaveTimetable

SpecSelect == InitSelect /\ [][NextSelect]_vars

(***************************************************************************)
(* FacultyDashboard: processRequest and undoAction, step by step           *)
(*                                                                         *)
(* Each handler sets processing, awaits the update of the request, awaits  *)
(* the update of the faculty member's users document and sets processing   *)
(* to null.  A running call is a record with the write it is waiting for   *)
(* (pc), the request as the list held it when the button was clicked, the  *)
(* stored request at that moment (before) and its rank among the calls (n).*)
(***************************************************************************)
\* how many status actions are started in all
MaxStatusActions == 3

ErrProcessFailed == "Failed to process request. Please try again."

ErrUndoFailed == "Failed to undo action. Please try again."

\* disabled={processing === request.id} on the buttons of a card
buttonsDisabled(request) == processing = request.id

\* the state of a call right after its button has been clicked
StartedStatusCall(kind, currentRequest, status) ==
    [n |-> statusActions + 1, kind |-> kind, pc |-> "request",
     requestId |-> currentRequest.id,
     status |-> status, currentRequest |-> currentRequest,
     before |-> Listed(currentRequest.id, attendanceRequests[currentRequest.id])]

\* the Approve or the Reject button of a rendered card is clicked:
\* processRequest runs up to its first await
StartProcessRequest(requestId, status) ==
    /\ role = "faculty"
    /\ Cardinality(statusCalls) < MaxCalls
    /\ statusActions < MaxStatusActions
    /\ statusActions' = statusActions + 1
    /\ \E currentRequest \in filteredRequests :
          /\ currentRequest.id = requestId
          /\ ~buttonsDisabled(currentRequest)
          /\ statusCalls' = statusCalls \cup
                {StartedStatusCall("processRequest", currentRequest, status)}
    /\ processing' = requestId
    /\ error' = FormMessage("")
    /\ UNCHANGED <<now, attendanceRequests, teacherStatus, showRequestForm,
                   weekDates, loading, loadRequestsPending, requests,
                   selectedSlots, filter>>
    /\ UNCHANGED ttVars
    /\ UNCHANGED timeVars
    /\ UNCHANGED <<coursesCollection, courses, calls, nextDocId, pendingLoads,
                   managerLoading>>

\* the Undo button of a rendered card is clicked: undoAction runs up to its
\* first await
StartUndoAction(requestId) ==
    /\ role = "faculty"
    /\ Cardinality(statusCalls) < MaxCalls
    /\ statusActions < MaxStatusActions
    /\ statusActions' = statusActions + 1
    /\ \E currentRequest \in filteredRequests :
          /\ currentRequest.id = requestId
          /\ undoOffered(currentRequest)
          /\ ~buttonsDisabled(currentRequest)
          /\ statusCalls' = statusCalls \cup
                {StartedStatusCall("undoAction", currentRequest,
                                   restoredStatus(currentRequest))}
    /\ processing' = requestId
    /\ error' = FormMessage("")
    /\ UNCHANGED <<now, attendanceRequests, teacherStatus, showRequestForm,
                   weekDates, loading, loadRequestsPending, requests,
                   selectedSlots, filter>>
    /\ UNCHANGED ttVars
    /\ UNCHANGED timeVars
    /\ UNCHANGED <<coursesCollection, courses, calls, nextDocId, pendingLoads,
                   managerLoading>>

\* await updateDoc(requestRef, ...) of a call resolves
RequestUpdateResolves(c) ==
    /\ c \in statusCalls
    /\ c.pc = "request"
    /\ attendanceRequests' =
          [attendanceRequests EXCEPT ![c.requestId] =
              IF c.kind = "processRequest"
              THEN [@ EXCEPT !.status = c.status,
                             !.processedAt = "set",
                             !.previousStatus = c.currentRequest.status]
              ELSE [@ EXCEPT !.status = c.status,
                             !.processedAt = "null",
                             !.previousStatus = "null"]]
    /\ statusCalls' = (statusCalls \ {c}) \cup {[c EXCEPT !.pc = "user"]}
    /\ UNCHANGED <<now, teacherStatus, showRequestForm, weekDates, loading,
                   loadRequestsPending, requests, selectedSlots, error, filter>>
    /\ UNCHANGED ttVars
    /\ UNCHANGED timeVars
    /\ UNCHANGED <<coursesCollection, courses, calls, nextDocId, pendingLoads,
                   managerLoading, processing, statusActions>>

\* await updateDoc(teacherRef, ...) of a call resolves and the call ends:
\* setProcessing(null); the loadRequests it starts resolves on its own
UserUpdateResolves(c) ==
    /\ c \in statusCalls
    /\ c.pc = "user"
    /\ teacherStatus' = IF c.kind = "processRequest" THEN c.status ELSE "pending"
    /\ statusCalls' = statusCalls \ {c}
    /\ processing' = NoRequest
    /\ UNCHANGED <<now, attendanceRequests, showRequestForm, weekDates, loading,
                   loadRequestsPending, requests, selectedSlots, error, filter>>
    /\ UNCHANGED ttVars
    /\ UNCHANGED timeVars
    /\ UNCHANGED <<coursesCollection, courses, calls, nextDocId, pendingLoads,
                   managerLoading, statusActions>>

\* the updateDoc a call is waiting for rejects: the catch block reports the
\* failure and the call ends with setProcessing(null)
StatusCallFails(c) ==
    /\ c \in statusCalls
    /\ error' = FormMessage(IF c.kind = "processRequest"
                            THEN ErrProcessFailed ELSE ErrUndoFailed)
    /\ statusCalls' = statusCalls \ {c}
    /\ processing' = NoRequest
    /\ UNCHANGED <<now, attendanceRequests, teacherStatus, showRequestForm,
                   weekDates, loading, loadRequestsPending, requests,
                   selectedSlots, filter>>
    /\ UNCHANGED ttVars
    /\ UNCHANGED timeVars
    /\ UNCHANGED <<coursesCollection, courses, calls, nextDocId, pendingLoads,
                   managerLoading, statusActions>>

NextStatus ==
    \/ \E f \in Filters : SetFilter(f)
    \/ FacLoadRequests
    \/ \E id \in 1..MaxListed, status \in Decisions : StartProcessRequest(id, status)
    \/ \E id \in 1..MaxListed : StartUndoAction(id)
    \/ \E c \in statusCalls : RequestUpdateResolves(c)
    \/ \E c \in statusCalls : UserUpdateResolves(c)
    \/ \E c \in statusCalls : StatusCallFails(c)

SpecStatus == InitFaculty /\ [][NextStatus]_vars

(***************************************************************************)
(* Claims about the time utilities                                         *)
(***************************************************************************)
BothWellFormed == in1.kind # "raw" /\ in2.kind # "raw"

\* the half-open overlap test on the intervals the two inputs stand for
IntervalsOverlap(s1, e1, s2, e2) == s1 < e2 /\ s2 < e1

\* C1: for well-formed time texts a and b, checkTimeOverlap(a, b) is true
\* exactly when a.start < b.end and b.start < a.end in minutes since midnight,
\* so ranges that only touch do not overlap.
C1_OverlapIsHalfOpen ==
    (op = "checkTimeOverlap" /\ BothWellFormed)
        => out = IntervalsOverlap(StartOf(in1), EndOf(in1), StartOf(in2), EndOf(in2))

\* two ranges that only touch were compared and found not to overlap
C1_Witness ==
    /\ op = "checkTimeOverlap"
    /\ in1.kind = "range" /\ in2.kind = "range"
    /\ StartOf(in1) < EndOf(in1)
    /\ EndOf(in1) = StartOf(in2)
    /\ StartOf(in2) < EndOf(in2)
    /\ out = FALSE

\* a bare time, or a range whose start is before its end
ProperInterval(i) == i.kind # "raw" /\ StartOf(i) < EndOf(i)

\* C2 as stated: checkTimeOverlap is symmetric for all well-formed inputs and
\* true on identical inputs for every well-formed range or bare time.
C2_Original ==
    (op = "checkTimeOverlap" /\ BothWellFormed)
        => /\ out = checkTimeOverlap(time2, time1)
           /\ (time1 = time2 => out = TRUE)

\* C2 as amended: checkTimeOverlap is symmetric for all well-formed inputs; on
\* identical inputs it is true for every bare time and every range whose start
\* is before its end, and false for a range whose start is not before its end.
C2_SymmetricReflexive ==
    (op = "checkTimeOverlap" /\ BothWellFormed)
        => /\ out = checkTimeOverlap(time2, time1)
           /\ (time1 = time2 => (out = ProperInterval(in1)))

\* a range with start before end was compared with itself and overlaps
C2_Witness ==
    /\ op = "checkTimeOverlap"
    /\ in1.kind = "range"
    /\ time1 = time2
    /\ StartOf(in1) < EndOf(in1)
    /\ out = TRUE

\* the range text that starts at the bare time t and ends 60 minutes later
\* (defined while that end is still a time of the same day)
HourRangeText(t) ==
    timeRangeText(timeString(t[1], t[2]), timeString(t[1] + 1, t[2]))

\* C3: for overlap purposes a bare time t is the range [t, t + 60 minutes):
\* checkTimeOverlap(t, x) is the overlap of that interval with x, and equals
\* the result for the range text "t - (t + 1 hour)".
C3_BareTimeIsOneHour ==
    (op = "checkTimeOverlap" /\ in1.kind = "bare" /\ in2.kind # "raw")
        => /\ out = IntervalsOverlap(Minutes(in1.s), Minutes(in1.s) + 60,
                                     StartOf(in2), EndOf(in2))
           /\ (in1.s[1] < 23 => out = checkTimeOverlap(HourRangeText(in1.s), time2))

\* checkTimeOverlap("09:00", "09:30 - 10:00") was evaluated and is true
C3_Witness ==
    /\ op = "checkTimeOverlap"
    /\ in1 = [kind |-> "bare", s |-> <<9, 0>>, e |-> <<0, 0>>]
    /\ in2 = [kind |-> "range", s |-> <<9, 30>>, e |-> <<10, 0>>]
    /\ out = TRUE

\* C4: for valid HH:MM times s and e, validateTimeRange("s - e") is valid when
\* s < e and fails with the ordering error when s >= e, s = e included.
C4_ValidateOrdering ==
    (op = "validateTimeRange" /\ in1.kind = "range")
        => /\ (Minutes(in1.s) < Minutes(in1.e)
                  => out = [isValid |-> TRUE, error |-> NoError])
           /\ (Minutes(in1.s) >= Minutes(in1.e)
                  => out = [isValid |-> FALSE, error |-> ErrOrder])

\* a range with equal start and end was rejected with the ordering error
C4_Witness ==
    /\ op = "validateTimeRange"
    /\ in1.kind = "range"
    /\ in1.s = in1.e
    /\ out = [isValid |-> FALSE, error |-> ErrOrder]

\* s is a 1-2 digit hour in 0..23, a colon and a 2-digit minute in 0..59
IsTimeHalf(s) ==
    /\ Len(s) \in {4, 5}
    /\ \E h \in 0..23 : \E m \in 0..59 :
          \/ s = toString(h) \o <<":">> \o padStart2(m)
          \/ s = padStart2(h) \o <<":">> \o padStart2(m)

\* s is such a half with blanks around it
IsPaddedHalf(s) ==
    \E j \in 0..Len(s) : \E k \in 0..(Len(s) - j) :
        /\ \A i \in 1..j : s[i] = " "
        /\ \A i \in (Len(s) - k + 1)..Len(s) : s[i] = " "
        /\ IsTimeHalf(SubSeq(s, j + 1, Len(s) - k))

\* t is exactly two such halves with " - " between them
ConsistsOfTwoHalves(t) ==
    \E i \in 1..(Len(t) - 2) :
        /\ t[i] = " " /\ t[i + 1] = "-" /\ t[i + 2] = " "
        /\ IsPaddedHalf(SubSeq(t, 1, i - 1))
        /\ IsPaddedHalf(SubSeq(t, i + 3, Len(t)))

\* C5: validateTimeRange fails with a format error for every text that lacks
\* the " - " separator and for every text in which a half (after trimming) is
\* not an hour 0..23, a colon and a 2-digit minute 0..59; it succeeds only for
\* texts that consist of exactly two such halves.  (Every message of
\* validateTimeRange counts as a format error here.)
C5_FormatErrors ==
    (op = "validateTimeRange" /\ ~ConsistsOfTwoHalves(time1))
        => /\ out.isValid = FALSE
           /\ out.error \in {ErrSeparator, ErrFormat, ErrOrder}


(***************************************************************************)
(* Claims about the timetable editors                                      *)
(***************************************************************************)
\* the times of day the modal's selects offer, as <<hour, minute>>
GridTimes == {<<i \div 2, (i % 2) * 30>> : i \in OptionSlots}

GridText(t) == timeString(t[1], t[2])

\* every time text of a timetable entry with the interval it stands for: a
\* range of two grid times, or a bare grid time lasting 60 minutes
GridIntervals ==
    {[text |-> timeRangeText(GridText(a), GridText(b)),
      s |-> Minutes(a), e |-> Minutes(b)] : a \in GridTimes, b \in GridTimes}
        \cup {[text |-> GridText(a), s |-> Minutes(a), e |-> Minutes(a) + 60] :
                 a \in GridTimes}

IntervalOfText(text) == CHOOSE c \in GridIntervals : c.text = text

\* the existing entries of the modal's weekday whose interval overlaps [a, b)
Colliding(a, b) ==
    {x \in ExistingEntries(selectedDay) :
        IntervalsOverlap(Minutes(a), Minutes(b),
                         IntervalOfText(x.time).s, IntervalOfText(x.time).e)}

\* what a submission of the complete form with times a and b must do
SubmitOutcome(a, b) ==
    LET timeRange == timeRangeText(GridText(a), GridText(b))
    IN  IF Colliding(a, b) # {}
        THEN /\ timetable' = timetable
             /\ timetables' = timetables
             /\ selectedDay' = selectedDay
             /\ Minutes(a) < Minutes(b)
                   => \E x \in Colliding(a, b) : modalError' = OverlapMessage(x)
        ELSE Minutes(a) < Minutes(b)
                => /\ selectedDay' = NoDay
                   /\ \E e \in timetable' :
                         /\ e \notin timetable
                         /\ e.day = selectedDay
                         /\ e.time = timeRange
                   /\ \E d \in BagToSet(timetables') :
                         /\ d.day = selectedDay
                         /\ d.time = timeRange
                         /\ CopiesIn(d, timetables') > CopiesIn(d, timetables)

\* C6: submitting the modal with a new range that overlaps an existing entry
\* of the weekday is rejected: nothing is saved, the modal stays open and its
\* error names the subject and time of a colliding entry; a range that
\* overlaps no existing entry is saved through onSave with that range.
C6_ModalRejectsOverlap ==
    [][\A a \in GridTimes, b \in GridTimes :
          /\ MgrHandleSubmit(GridText(a), GridText(b), FacultyFor(selectedCourse),
                             SubjectOf(FacultyFor(selectedCourse)))
                => SubmitOutcome(a, b)
          /\ \A c \in Courses :
                FacHandleSubmit(GridText(a), GridText(b), c, "1")
                    => SubmitOutcome(a, b)]_vars

\* the weekday holds two entries that only touch, and a third range that
\* overlaps one of them has just been rejected with the error naming it
C6_Witness ==
    /\ selectedDay \in Days
    /\ modalError.msg = ErrOverlap
    /\ \E x \in ExistingEntries(selectedDay), y \in ExistingEntries(selectedDay) :
          /\ IntervalOfText(x.time).e = IntervalOfText(y.time).s
          /\ IntervalOfText(x.time).s < IntervalOfText(x.time).e
          /\ IntervalOfText(y.time).s < IntervalOfText(y.time).e
          /\ modalError.subject = x.subject
          /\ modalError.time = x.time

\* two documents are in the same timetable scope
SameScope(d1, d2) ==
    \/ (d1.course = d2.course /\ d1.semester = d2.semester)
    \/ d1.facultyId = d2.facultyId

DocsOverlap(d1, d2) ==
    IntervalsOverlap(IntervalOfText(d1.time).s, IntervalOfText(d1.time).e,
                     IntervalOfText(d2.time).s, IntervalOfText(d2.time).e)

\* C7: in every reachable state of the timetables collection no two entries
\* of the same weekday in the same scope (same course and semester, or same
\* faculty) have overlapping times.
C7_NoOverlapInScope ==
    \A d1 \in BagToSet(timetables), d2 \in BagToSet(timetables) :
        (/\ d1 # d2 \/ CopiesIn(d1, timetables) > 1
         /\ d1.day = d2.day
         /\ SameScope(d1, d2))
            => ~DocsOverlap(d1, d2)


(***************************************************************************)
(* Claims about the student's request form                                 *)
(***************************************************************************)
\* the form is mounted and shows the grid of class slots
GridShown == showRequestForm /\ ~loading

\* the class detail d is for the subject and weekday of the slot, at a time
\* whose interval overlaps the slot's
DetailMatches(d, slot) ==
    /\ d.subject = slot.subject
    /\ d.day = slot.day
    /\ IntervalsOverlap(IntervalOfText(d.time).s, IntervalOfText(d.time).e,
                        IntervalOfText(slot.time).s, IntervalOfText(slot.time).e)

\* the loaded requests with one of the given statuses that have a class
\* detail matching the slot
MatchingRequests(slot, statuses) ==
    {i \in 1..Len(requests) :
        /\ requests[i].status \in statuses
        /\ \E d \in requests[i].classDetails : DetailMatches(d, slot)}

\* the slot's start on its date of the form's week is before now
StartBeforeNow(slot) ==
    LET date == findWeekDate(slot.day).date.date
    IN  \/ date < now.date
        \/ (date = now.date /\ IntervalOfText(slot.time).s < now.minutes)

\* the slot's date is flagged past, or is a day before today
WeekDatePast(slot) ==
    \/ findWeekDate(slot.day).isPast
    \/ findWeekDate(slot.day).date.date < now.date

\* C8: checkDuplicateRequest(slot, weekDate) is true exactly when a request
\* with status other than 'rejected' has a class detail with the same subject
\* and day, an overlapping time and the calendar date of weekDate; a request
\* for the same class on another date does not make the slot a duplicate.
C8_DuplicateOnSameDate ==
    GridShown =>
        \A slot \in timetable :
            checkDuplicateRequest(slot, findWeekDate(slot.day))
                = (\E i \in MatchingRequests(slot, {"pending", "approved"}) :
                      \E d \in requests[i].classDetails :
                          /\ DetailMatches(d, slot)
                          /\ d.date = findWeekDate(slot.day).date.date)

\* what a click on the slot must do, given the requests the form has loaded
ToggleOutcome(slot) ==
    LET weekDate == findWeekDate(slot.day)
        key == slotKey(slot.day, slot.time)
        active == MatchingRequests(slot, {"pending", "approved"}) # {}
        past == WeekDatePast(slot) \/ StartBeforeNow(slot)
    IN  /\ active
            => /\ selectedSlots' = selectedSlots
               /\ isSlotDisabled(slot.day, slot.time, slot)
               /\ error' # NoFormError
               /\ ~past => error' = DuplicateMessage(slot, weekDate)
        /\ (~active /\ ~past)
            => /\ ~isSlotDisabled(slot.day, slot.time, slot)
               /\ selectedSlots' = IF key \in selectedSlots
                                   THEN selectedSlots \ {key}
                                   ELSE selectedSlots \cup {key}

\* a submission of the selected slots with faculty and reason filled in
\* stores a pending request for exactly those slots
RequestStored ==
    selectedSlots # {}
        => /\ Len(attendanceRequests') = Len(attendanceRequests) + 1
           /\ LET new == attendanceRequests'[Len(attendanceRequests')]
              IN  /\ new.status = "pending"
                  /\ {slotKey(d.day, d.time) : d \in new.classDetails} = selectedSlots
           /\ \A i \in 1..Len(attendanceRequests) :
                 attendanceRequests'[i] = attendanceRequests[i]

Blocked(slot) ==
    \/ WeekDatePast(slot)
    \/ StartBeforeNow(slot)
    \/ MatchingRequests(slot, {"pending", "approved"}) # {}

\* C10: when a slot's WeekDate is past, or its start is before now, or a
\* non-rejected loaded request matches it, isSlotDisabled is true and
\* toggleSlotSelection leaves the selected slots unchanged.
C10_NeverSelectable ==
    /\ [](GridShown =>
             \A slot \in timetable :
                 Blocked(slot) => isSlotDisabled(slot.day, slot.time, slot))
    /\ [][\A slot \in timetable :
             (ToggleSlotSelection(slot) /\ Blocked(slot))
                 => selectedSlots' = selectedSlots]_vars

\* a class of today that has started was clicked and refused, while another
\* class that has not started is disabled by a pending or approved request
C10_Witness ==
    /\ GridShown
    /\ error.msg = ErrPastSlot
    /\ selectedSlots = {}
    /\ \E s1 \in timetable, s2 \in timetable :
          /\ ~findWeekDate(s1.day).isPast
          /\ StartBeforeNow(s1)
          /\ ~StartBeforeNow(s2)
          /\ ~WeekDatePast(s2)
          /\ MatchingRequests(s2, {"pending", "approved"}) # {}
          /\ isSlotDisabled(s2.day, s2.time, s2)


\* the class detail's slot has started: its date and start time are before now
DetailInPast(d) ==
    \/ d.date < now.date
    \/ (d.date = now.date /\ IntervalOfText(d.time).s < now.minutes)

\* a stored request that is not rejected has a class detail for the subject
\* and day of d at an overlapping time
StoredDuplicate(d) ==
    \E i \in 1..Len(attendanceRequests) :
        /\ attendanceRequests[i].status # "rejected"
        /\ \E e \in attendanceRequests[i].classDetails :
              /\ e.subject = d.subject
              /\ e.day = d.day
              /\ IntervalsOverlap(IntervalOfText(e.time).s, IntervalOfText(e.time).e,
                                  IntervalOfText(d.time).s, IntervalOfText(d.time).e)

\* C11: submitRequest never writes a request with a class detail that, at the
\* time of the write, overlaps a non-rejected stored request of the student
\* for the same subject and day, or whose slot is already in the past.
C11_CheckBeforePersist ==
    [][\A form \in SubmitForms :
          (SubmitRequest(form[1], form[2])
              /\ Len(attendanceRequests') = Len(attendanceRequests) + 1)
            => \A d \in attendanceRequests'[Len(attendanceRequests')].classDetails :
                  ~StoredDuplicate(d) /\ ~DetailInPast(d)]_vars


(***************************************************************************)
(* Claims about the week utilities                                         *)
(***************************************************************************)
\* the date isTimeSlotInPast was last applied to
DateUnderTest == weekDates[out.dayOfWeek].date

\* C12: isTimeSlotInPast(date, time) is true exactly when the date with the
\* slot's start time is strictly before now; of a range only the start is
\* used, so a class that has started but not ended is in the past and a class
\* of today that starts later is not.
C12_PastByStart ==
    op = "isTimeSlotInPast"
        => out.result = (\/ DateUnderTest.date < now.date
                         \/ /\ DateUnderTest.date = now.date
                            /\ StartOf(in1) < now.minutes)

\* a class of today that has started and not ended was reported as past
C12_Witness ==
    /\ op = "isTimeSlotInPast"
    /\ in1.kind = "range"
    /\ DateUnderTest.date = now.date
    /\ StartOf(in1) < now.minutes
    /\ now.minutes < EndOf(in1)
    /\ out.result = TRUE

\* C13: getCurrentWeekDates returns 7 entries with dayOfWeek 0..6 in order on
\* consecutive dates starting at the most recent day 0; exactly one entry is
\* today, no entry is both today and past, and the number of past entries is
\* the weekday index of now.
C13_WeekOfNow ==
    op = "getCurrentWeekDates"
        => /\ DOMAIN weekDates = 0..6
           /\ \A i \in 0..6 :
                 /\ weekDates[i].dayOfWeek = i
                 /\ weekDates[i].date.date = weekDates[0].date.date + i
                 /\ ~(weekDates[i].isToday /\ weekDates[i].isPast)
                 /\ weekDates[i].isToday = (weekDates[i].date.date = now.date)
           /\ weekDates[0].date.date % 7 = 0
           /\ weekDates[0].date.date <= now.date
           /\ now.date < weekDates[0].date.date + 7
           /\ Cardinality({i \in 0..6 : weekDates[i].isToday}) = 1
           /\ Cardinality({i \in 0..6 : weekDates[i].isPast}) = now.date % 7

\* the week of a Wednesday was taken: three days are past and one is today
C13_Witness ==
    /\ op = "getCurrentWeekDates"
    /\ now.date % 7 = 3
    /\ weekDates[3].isToday
    /\ Cardinality({i \in 0..6 : weekDates[i].isPast}) = 3

(***************************************************************************)
(* Claims about the life cycle of a request                                *)
(***************************************************************************)

ListedIds == 1..MaxListed

\* C14: processRequest is applied to pending requests only, so that the
\* forward transitions are pending -> approved and pending -> rejected and a
\* request that is already approved or rejected is never processed again.
\* The dashboard renders Approve and Reject on every card, whatever the
\* status of the request.
C14_ForwardFromPendingOnly ==
    [][\A id \in ListedIds, status \in Decisions :
          FacultyProcessRequest(id, status)
              => attendanceRequests[id].status = "pending"]_vars

\* the last write to the stored request was a forward transition: processedAt
\* is set by processRequest only, and cleared by undoAction
ForwardResult(id) == attendanceRequests[id].processedAt = "set"

\* C15: undo is single-level: undoAction clears previousStatus and
\* processedAt, and after an undo of a request no second undo of it happens
\* until a new forward transition has been applied to it.  The Undo button is
\* rendered from the dashboard's copy of the request, which still shows the
\* undone transition until a reload of the list has resolved.
C15_SingleLevelUndo ==
    [][\A id \in ListedIds :
          UndoAction(id)
              => /\ ForwardResult(id)
                 /\ attendanceRequests'[id].previousStatus = "null"
                 /\ attendanceRequests'[id].processedAt = "null"]_vars

\* C16: processRequest stores as previousStatus the status the request had
\* in the store immediately before the transition, and undoAction sets the
\* status back to exactly the previousStatus the store recorded, whatever
\* approve, reject, undo and reload steps came before.  Both handlers take
\* these values from the dashboard's copy of the request.
C16_UndoRestoresPriorStatus ==
    [][\A id \in ListedIds :
          /\ \A status \in Decisions :
                FacultyProcessRequest(id, status)
                    => attendanceRequests'[id].previousStatus
                           = attendanceRequests[id].status
          /\ UndoAction(id)
                => attendanceRequests'[id].status
                       = attendanceRequests[id].previousStatus]_vars

\* the card a reload of the list delivers for the stored request
StoredCard(id) == Listed(id, attendanceRequests[id])

\* C17: no status is terminal: whenever the stored request is approved or
\* rejected as the result of a forward transition, whatever approve, reject
\* and undo actions came before, the list reloaded under 'all' or under the
\* tab of its status delivers a card that offers Undo, and where the
\* dashboard renders that card undoAction can be taken.
C17_UndoAvailable ==
    \A id \in 1..Len(attendanceRequests) :
        ForwardResult(id)
            => /\ attendanceRequests[id].status \in Decisions
               /\ StoredCard(id) \in queryRequests("all")
               /\ StoredCard(id) \in queryRequests(attendanceRequests[id].status)
               /\ undoOffered(StoredCard(id))
               /\ StoredCard(id) \in filteredRequests => ENABLED UndoAction(id)

\* a request rejected after it had been approved, on its reloaded card
C17_Witness ==
    \E id \in 1..Len(attendanceRequests) :
        /\ ForwardResult(id)
        /\ attendanceRequests[id].status = "rejected"
        /\ attendanceRequests[id].previousStatus = "approved"
        /\ StoredCard(id) \in filteredRequests

Statuses == {"pending", "approved", "rejected"}

StatusDomain ==
    \A id \in 1..Len(attendanceRequests) : attendanceRequests[id].status \in Statuses

\* C18: pending is the only initial state: every document a student's
\* submission adds to attendanceRequests has status 'pending' and neither a
\* previousStatus nor a processedAt, and the status of every stored request is
\* always one of pending, approved, rejected.
C18_PendingIsInitial ==
    /\ []StatusDomain
    /\ [][Len(attendanceRequests') > Len(attendanceRequests)
              => /\ Len(attendanceRequests') = Len(attendanceRequests) + 1
                 /\ SubSeq(attendanceRequests', 1, Len(attendanceRequests))
                        = attendanceRequests
                 /\ LET created == attendanceRequests'[Len(attendanceRequests')]
                    IN  /\ created.status = "pending"
                        /\ created.previousStatus = "undefined"
                        /\ created.processedAt = "undefined"]_vars

\* a request just submitted, next to one the faculty member has rejected
C18_Witness ==
    /\ Len(attendanceRequests) = 2
    /\ attendanceRequests[1].status = "rejected"
    /\ attendanceRequests[2].status = "pending"
    /\ attendanceRequests[2].processedAt = "undefined"
    /\ showRequestForm = FALSE

(***************************************************************************)
(* Claims about the stored timetable                                       *)
(***************************************************************************)

\* the stored timetable of the selected course and semester
StoredSelection(coll) ==
    [d \in Matching(coll, InSelection) |-> coll[d]]

\* C19: saveTimetable deletes the stored entries of the course and semester
\* and then inserts the local ones, without atomicity: when a call to the
\* store fails after the delete phase and before the insert phase is
\* complete, the run ends with 'Failed to save timetable', the local
\* timetable is kept, and the store holds for the course and semester only
\* the entries inserted so far, fewer than the local ones, possibly none.
C19_SaveNotAtomic ==
    [][SaveTimetableFails("insert")
          => /\ error' = ManagerError(ErrSaveFailed)
             /\ timetable' = timetable
             /\ entriesToAdd # EmptyBag
             /\ StoredSelection(timetables') \sqsubseteq entriesToAdd
             /\ StoredSelection(timetables') # entriesToAdd
             /\ \A d \in BagToSet(timetables) \cup BagToSet(timetables') :
                   ~InSelection(d) => CopiesIn(d, timetables') = CopiesIn(d, timetables)]_vars

\* a failed save has left the stored timetable of the course and semester
\* empty while the editor still shows entries
C19_Witness ==
    /\ error = ManagerError(ErrSaveFailed)
    /\ StoredSelection(timetables) = EmptyBag
    /\ entriesToAdd # EmptyBag
    /\ timetable # {}

\* two documents describe the same class slot
SameSlotKey(d1, d2) ==
    /\ d1.course = d2.course
    /\ d1.semester = d2.semester
    /\ d1.day = d2.day
    /\ d1.time = d2.time

\* C20: in every reachable state the timetables collection holds at most one
\* document per (course, semester, day, time-range), whatever entries were
\* added through the admin's weekly grid, the admin's "New Entry" form and the
\* faculty timetable.  The "New Entry" form adds its document without looking
\* at the collection.
C20_OneDocumentPerSlot ==
    \A d1 \in BagToSet(timetables), d2 \in BagToSet(timetables) :
        SameSlotKey(d1, d2) => (d1 = d2 /\ CopiesIn(d1, timetables) = 1)

(***************************************************************************)
(* Claims about the admin dashboard                                        *)
(***************************************************************************)

\* the header of a sample file names every required column
HeaderComplete(file) ==
    \A k \in 1..Len(required) :
        \E i \in 1..Len(file.header) : file.header[i].name = required[k]

\* the rows of a sample file that are data lines
DataRows(file) == SelectSeq(file.rows, LAMBDA row : row.shape # "blank")

\* a data row with as many cells as the header and a course, a semester and a
\* subject
ValidRow(row) ==
    /\ row.shape = "full"
    /\ row.course.core # <<>>
    /\ row.semester.core # <<>>
    /\ row.subject.core # <<>>

\* the document a valid row stands for
RowDocument(row) ==
    [course |-> row.course.core, semester |-> row.semester.core,
     day |-> row.day.core, time |-> row.time.core, subject |-> row.subject.core,
     facultyId |-> row.facultyid.core, facultyName |-> row.facultyname.core]

RECURSIVE RowDocuments(_)
\* one document for every valid row, as a bag
RowDocuments(rows) ==
    IF rows = <<>> THEN EmptyBag
    ELSE IF ValidRow(Head(rows))
         THEN SetToBag({RowDocument(Head(rows))}) (+) RowDocuments(Tail(rows))
         ELSE RowDocuments(Tail(rows))

\* C21: CSV import: under a header with all required columns every data row
\* whose number of cells differs from the header's or whose course, semester
\* or subject is empty is skipped without an error and every other row adds
\* exactly one document, so that as many documents are written as there are
\* valid rows; a header without a required column, or a file without a data
\* row, writes nothing and sets an error.
C21_CsvImport ==
    [][op' = "handleCsvUpload"
          => IF DataRows(in1) = <<>> \/ ~HeaderComplete(in1)
             THEN /\ timetables' = timetables
                  /\ error'.msg \in {ErrNoDataRows, ErrMissingColumns}
                  /\ out'.uploaded = -1
             ELSE LET valid == SelectSeq(in1.rows, ValidRow)
                  IN  /\ timetables' = timetables (+) RowDocuments(in1.rows)
                      /\ BagCardinality(timetables')
                             = BagCardinality(timetables) + Len(valid)
                      /\ error' = AdminError("")
                      /\ out'.uploaded = Len(valid)]_vars

\* an upload under the reordered header that kept one row and skipped one
C21_Witness ==
    /\ op = "handleCsvUpload"
    /\ in1.header[1].name = required[5]
    /\ Len(in1.rows) = 2
    /\ ValidRow(in1.rows[1])
    /\ in1.rows[1].course.text # in1.rows[1].course.core
    /\ in1.rows[2].shape = "short"
    /\ out.uploaded = 1
    /\ timetables = SetToBag({RowDocument(in1.rows[1])})

\* C22: course names are unique ignoring case: whatever addCourse and
\* deleteCourse operations came before, no two documents of the courses
\* collection have names that are equal ignoring case.  addCourse looks for
\* the name in the dashboard's list of courses, which is reloaded without
\* being awaited.
C22_UniqueCourseNames ==
    \A c1 \in courseDocs, c2 \in courseDocs :
        toLowerCase(c1.name) = toLowerCase(c2.name) => c1 = c2

(***************************************************************************)
(* Claims about the handling of errors                                     *)
(***************************************************************************)

\* a text of blanks only
Blank(text) == \A k \in 1..Len(text) : text[k] = " "

\* a field of the entry modal's form is empty
FieldMissing(form) ==
    \/ form[1] = EmptyText
    \/ form[2] = EmptyText
    \/ form[3] = ""
    \/ form[4] = ""

\* C23: a missing required field blocks submission: submitRequest adds no
\* request when no slot is selected, no faculty member is selected or the
\* reason is blank, and the entry modal hands no entry to onSave when the
\* start time, the end time, the subject or the faculty member (and, where
\* they are shown, the course or the semester) is missing; the state is left
\* as it was and an error message is set.
C23_MissingFieldBlocks ==
    [][/\ \A form \in RequestForms :
             (/\ selectedSlots = {} \/ form[1] = "" \/ Blank(form[2])
              /\ SubmitRequest(form[1], form[2]))
                 => /\ error'.msg \in {ErrNoSlot, ErrNoFaculty, ErrNoReason}
                    /\ UNCHANGED <<attendanceRequests, showRequestForm,
                                   selectedSlots, requests, timetable, weekDates>>
       /\ \A form \in MgrForms :
             (/\ FieldMissing(form)
              /\ MgrHandleSubmit(form[1], form[2], form[3], form[4]))
                 => /\ modalError'.msg = ErrRequiredFields
                    /\ UNCHANGED <<timetables, timetable, selectedDay>>
       /\ \A form \in FacForms :
             (/\ FieldMissing(form)
              /\ FacHandleSubmit(form[1], form[2], form[3], form[4]))
                 => /\ modalError'.msg = ErrRequiredFields
                    /\ UNCHANGED <<timetables, timetable, selectedDay>>]_vars

\* the request form refused a submission with a slot selected, and nothing
\* was stored
C23_Witness ==
    /\ showRequestForm
    /\ selectedSlots # {}
    /\ error.msg \in {ErrNoFaculty, ErrNoReason}
    /\ attendanceRequests = <<>>

\* C24: on a failure of the store the attempted local change is rolled back:
\* when the write for an added or a removed timetable entry fails, the
\* in-memory timetable is what it was before, so that it never shows an entry
\* whose write failed nor hides one whose delete failed.  Both editors change
\* the in-memory timetable first and never restore it.
C24_RollbackOnFailure ==
    [][/\ \A form \in EditorForms : AddTimetableEntryFails(form) => timetable' = timetable
       /\ \A slot \in timetable : RemoveTimeSlotFails(slot) => timetable' = timetable]_vars

(***************************************************************************)
(* Claims about the display of times                                       *)
(***************************************************************************)

\* the 12-hour label of a time of day
Label(t) ==
    LET h == t[1]
        shown == IF h = 0 \/ h = 12 THEN 12 ELSE IF h < 12 THEN h ELSE h - 12
    IN  toString(shown) \o <<":">> \o padStart2(t[2]) \o <<" ">>
            \o (IF h < 12 THEN <<"A", "M">> ELSE <<"P", "M">>)

\* C25: formatSingleTime turns every 24-hour 'HH:MM' into a 12-hour label:
\* hours 0 and 12 are shown as 12, the other hours as the hour modulo 12, the
\* minutes are kept, and the suffix is AM below 12 and PM from 12 on;
\* formatTimeSlot does this to both halves of a text with ' - ' and to the
\* whole text otherwise.
C25_TwelveHourLabel ==
    /\ op = "formatSingleTime" => out = Label(in1.s)
    /\ op = "formatTimeSlot"
          => out = IF in1.kind = "range"
                   THEN Label(in1.s) \o <<" ", "-", " ">> \o Label(in1.e)
                   ELSE Label(in1.s)

\* '00:30 - 12:30' has been formatted
C25_Witness ==
    /\ op = "formatTimeSlot"
    /\ time1 = <<"0", "0", ":", "3", "0", " ", "-", " ", "1", "2", ":", "3", "0">>
    /\ out = <<"1", "2", ":", "3", "0", " ", "A", "M", " ", "-", " ", "1", "2", ":", "3", "0", " ", "P", "M">>

\* a stored document holds the entry of the in-memory timetable
DocumentOf(d, e) ==
    /\ d.day = e.day
    /\ d.time = e.time
    /\ d.subject = e.subject
    /\ d.facultyId = e.facultyId

\* C26: when saveTimetable completes, no other write being in flight, the
\* stored timetable of the course and semester holds exactly one document for
\* each entry of the in-memory timetable that has a subject and a faculty
\* member, with the same day, time, subject and faculty member, and no other
\* document.
C26_SaveStoresLocalEntries ==
    [][MgrSaveTimetable
          => LET stored == StoredSelection(timetables')
                 entries == {e \in timetable : e.subject # "" /\ e.facultyId # ""}
             IN  /\ \A e \in entries :
                       /\ \E d \in DOMAIN stored : DocumentOf(d, e)
                       /\ \A d1 \in DOMAIN stored, d2 \in DOMAIN stored :
                             (DocumentOf(d1, e) /\ DocumentOf(d2, e)) => d1 = d2
                 /\ \A d \in DOMAIN stored :
                       /\ stored[d] = 1
                       /\ \E e \in entries : DocumentOf(d, e)
                 /\ timetable' = timetable]_vars

\* a save has completed after an earlier one had failed: the store holds the
\* two entries of the editor again
C26_Witness ==
    /\ role = "admin"
    /\ op = "saveTimetable"
    /\ error = ManagerError("")
    /\ Cardinality(timetable) = 2
    /\ StoredSelection(timetables) = entriesToAdd

(***************************************************************************)
(* Claims about calls that run at the same time                            *)
(***************************************************************************)
\* the documents of the selected course and semester, with their ids
StoredUnderSelection == {d \in DOMAIN timetables : InSelection(d)}

\* C27: in the admin grid, whatever the interleaving of the steps of
\* persistSingleEntry, deleteSingleEntry and saveTimetable, once no call is
\* running the store has at most one document for each (day, time) of the
\* course and semester and no document for an entry the user removed.
C27_InterleavedWrites ==
    calls = {} =>
        /\ \A d1, d2 \in StoredUnderSelection :
              (d1.day = d2.day /\ d1.time = d2.time) => d1 = d2
        /\ \A d \in StoredUnderSelection :
              \E e \in timetable : e.day = d.day /\ e.time = d.time

\* the last loadTimetable that ended was rejected
LoadFailed == error = ManagerError(ErrLoadFailed)

\* the slots the grid shows for the documents of the selected course and
\* semester
SelectionSlots == {ManagerSlot(d) : d \in StoredUnderSelection}

\* C28: in the admin grid, once every loadTimetable has resolved, the
\* in-memory timetable holds the entries of the selected course and semester
\* and of no other: a load started for an earlier selection never replaces
\* it, so an add or a save writes no entry of another course or semester.
C28_TimetableOfSelection ==
    (pendingLoads = {} /\ ~LoadFailed /\ selectedCourse # "" /\ selectedSemester # "")
        => timetable = SelectionSlots

\* a course and semester were selected, their class was loaded, the course
\* was changed and the class of the second course loaded
C28_Witness ==
    /\ pendingLoads = {}
    /\ ~LoadFailed
    /\ selectedCourse = "MCA"
    /\ selectedSemester = "1"
    /\ timetable # {}
    /\ timetable = SelectionSlots
    /\ \E d \in DOMAIN timetables : d.course = "BCA"

\* C29: while a processRequest or undoAction of a request is running, the
\* buttons of that request stay disabled, so that no second status action on
\* it can be started, whatever is done with the other requests meanwhile.
C29_OneActionPerRequest ==
    \A c \in statusCalls : buttonsDisabled(c.currentRequest)

\* C30: whenever processRequest or undoAction ends by reporting its failure,
\* the stored status, processedAt and previousStatus of the request are what
\* they were when the call started.
C30_AllOrNothing ==
    [][\A c \in statusCalls :
          StatusCallFails(c) =>
              Listed(c.requestId, attendanceRequests'[c.requestId]) = c.before]_vars

====
